---- MODULE Spec2Model ----
(***************************************************************************)
(* The farm-map applications of the repository as state machines.          *)
(*                                                                         *)
(*   Spec       the map explorer (farm-map/app.js, version 0-2, and its    *)
(*              successor 0-3): data load, probability filter with a       *)
(*              debounced slider, zones toggle, viewport events and the    *)
(*              radius-linkage zone computation.                           *)
(*   SpecQuest  Zone Quest (farm-map-game/farm-map-zones/app.js): data     *)
(*              load and the grid bucketer createZones.                    *)
(*   SpecRescore  the map explorer of version 0-1 (farm-map/app.js, lines  *)
(*              408-780), whose zones are the rescored clusters of the     *)
(*              marker cluster group.                                      *)
(*   SpecVotes  the voting of the map explorer of version 0-3              *)
(*              (unnamed/part_000): local votes, seed votes and the        *)
(*              'Needs review' counter.                                    *)
(*   SpecGame   the scoring of Zone Quest: votes, power-ups and the clock. *)
(*   SpecViewport  version 0-1 on the data files of four farms.            *)
(*   SpecTinder  Zone Tinder (unnamed/part_003): the farms of one zone     *)
(*              shown one at a time, vote and cancelVote.                  *)
(*   SpecPoints, SpecBoxes, SpecZoneRows  Zone Quest started on farms with *)
(*              many votes, on a game one vote short of a mystery box, on  *)
(*              data files of several zones.                               *)
(*   SpecDoublePoints, SpecShop  Zone Quest played with the 2x power-up    *)
(*              from 500 saved points, and the purchases of the shop with  *)
(*              the mystery boxes.                                         *)
(*   SpecDebounce, SpecPages, SpecMalformed  the same machines started on  *)
(*              other data files: at most one farm, both pages side by     *)
(*              side on short files, files with malformed records.         *)
(*                                                                         *)
(* Units.  Latitude and longitude are integers in hundredths of a degree,  *)
(* probabilities are integers in percent (the slider delivers value / 100, *)
(* the data file two-decimal probabilities: both are the same double, so   *)
(* the comparison of percents is the comparison the code makes), distances *)
(* are metres, time is counted in ticks of 150 / DebounceTicks ms.         *)
(***************************************************************************)
EXTENDS Integers, Sequences, FiniteSets, TLC

VARIABLES
  \* ---- map explorer ----
  farmsJson,        \* content of vietnam_json.json (data.Farms), fixed per run
  loaded,           \* the fetch(...).then callback has run
  allMarkers,       \* let allMarkers = []
  clusterGroup,     \* markers in clusterGroup (indices into allMarkers, in add order)
  plainLayer,       \* markers in plainLayer
  probabilityMeta,  \* text of #probabilityMeta: [pct, count]
  zonesEnabled,     \* let zonesEnabled = false
  farmZones,        \* window.farmZones
  zoneLayer,        \* circles in zoneLayer
  panelActive,      \* #zonesPanel has class 'active'
  zonesList,        \* items of #zonesList
  sliderValue,      \* value of #probabilitySlider
  timers,           \* the browser's pending timeouts: records [id, value, left]
  filterTimeout,    \* let filterTimeout = null (0 stands for null)
  \* ---- history of the last handler, for the properties ----
  strong,           \* local `strong` of the last clustering pass
  members,          \* the `members` arrays of the clusters emitted by the last pass
  passRan,          \* the last call of computeHighDensityZones got past the flag test
  sinceInput,       \* ticks since the last slider input event (capped)
  inBurst,          \* the last slider input came less than 150 ms after the one before
  \* ---- Zone Quest ----
  questJson,        \* content of vietnam_json.json as read by Zone Quest
  questLoaded,      \* loadFarmData has completed
  allFarms,         \* let allFarms = []
  zones,            \* let zones = []
  \* ---- map explorer, version 0-1 ----
  clusterLayers,    \* the layers clusterGroup.eachLayer visits: lists of marker indices
  everDrawn,        \* history: some pass has put a circle in zoneLayer
  \* ---- map explorer, version 0-3: votes ----
  farmVotes,        \* localStorage 'farmVotes': farm id -> 'YES' / 'NO'
  seedVotes,        \* let seedVotes = {}: the ids that have a seed vote
  seedFetch,        \* fetch('votes_seed.json'): "pending", "done" or "failed"
  hasVote,          \* marker.hasVote of each marker of allMarkers
  unvotedCounter,   \* the number in the text of #unvotedCounter
  userData,         \* localStorage 'userData'
  \* ---- Zone Quest: scoring ----
  gameState,        \* let gameState = {...}
  globalVotes,      \* localStorage 'globalVotes_<farmId>'
  currentFarm,      \* let currentFarm = null (0 stands for null, else the farm id)
  farmPanel,        \* the numbers in the texts of #farmVotes and #farmPoints
  now,              \* Date.now(), in units of 5 minutes
  \* ---- Zone Tinder ----
  tinderFarms,      \* let farms = [] of Zone Tinder, after loadZoneData
  currentIndex,     \* let currentIndex = 0
  voteStatus,       \* #voteStatus: 0 when hidden (the voting buttons are shown),
                    \* else the farm id its cancel button is bound to
  lastVote          \* history: the farm of the last vote() and the user data before
                    \* it, until a vote is cancelled

mapVars == <<farmsJson, loaded, allMarkers, clusterGroup, plainLayer, probabilityMeta,
             zonesEnabled, farmZones, zoneLayer, panelActive, zonesList, sliderValue,
             timers, filterTimeout, strong, members, passRan, sinceInput, inBurst>>
questVars == <<questJson, questLoaded, allFarms, zones>>
rescoreVars == <<clusterLayers, everDrawn>>
voteVars == <<farmVotes, seedVotes, seedFetch, hasVote, unvotedCounter, userData>>
gameVars == <<gameState, globalVotes, currentFarm, farmPanel, now>>
tinderVars == <<tinderFarms, currentIndex, voteStatus, lastVote>>
vars == <<mapVars, questVars, rescoreVars, voteVars, gameVars, tinderVars>>

(***************************************************************************)
(* Bounds of the model.                                                    *)
(***************************************************************************)
MaxMarkers == 3      \* longest free-form data file
MaxGroups == 9       \* most far-apart groups in a grouped data file
DebounceTicks == 2   \* clock ticks in the 150 ms debounce delay
MaxFarms == 3        \* longest free-form data file of Zone Quest
MaxShort == 2        \* longest data file of the map explorer beside Zone Quest
MaxVoteMarkers == 2  \* longest data file of the map explorer of version 0-3
MaxVotes == 2        \* most votes cast in a run of version 0-3 or of Zone Tinder
MaxTinderFarms == 2  \* most farms of the zone handed to Zone Tinder
MaxSelect == 2        \* farms of Zone Quest the player selects
MaxGlobalVotes == 2   \* most votes counted for one farm of Zone Quest
MaxZones == 3         \* most zones of a Zone Quest data file
MaxVoteCount == 30    \* most votes a farm of Zone Quest has collected before the visit
MaxClock == 3         \* Date.now() stops here, in units of five minutes
MaxClustered == 4    \* longest data file of the map explorer of version 0-1

(***************************************************************************)
(* Helpers.                                                                *)
(***************************************************************************)
Min(a, b) == IF a < b THEN a ELSE b
Abs(a) == IF a < 0 THEN 0 - a ELSE a
Range(s) == {s[i] : i \in DOMAIN s}

RECURSIVE SumSeq(_)
SumSeq(s) == IF s = <<>> THEN 0 ELSE Head(s) + SumSeq(Tail(s))

\* s is strictly increasing (a sequence of indices in list order)
Increasing(s) == \A i \in 1..(Len(s) - 1) : s[i] < s[i + 1]

(***************************************************************************)
(* The data files the model loads.  A farm record of vietnam_json.json is  *)
(* [ID, Latitude, Longitude, farm_probability].  All farms of the model    *)
(* lie on the meridian 106 E, where the haversine distance is exact in     *)
(* integers (see distanceKm).  Free-form files are all sequences of up to  *)
(* MaxMarkers farms of four kinds: a farm of probability 0.5, and farms of *)
(* probability 0.9 at three sites 4.4 km apart (the first and the third    *)
(* are 8.9 km apart).  Grouped files hold 3 or MaxGroups groups, 111 km    *)
(* apart, of two or three farms 1.1 km apart with probability 0.9: with    *)
(* MaxGroups groups a pass finds more than eight clusters.                 *)
(***************************************************************************)
Meridian == 106 * 100
Kinds == { [lat |-> 1600, p |-> 50], [lat |-> 1600, p |-> 90],
           [lat |-> 1604, p |-> 90], [lat |-> 1608, p |-> 90] }
SliderValues == {60, 100}

Farm(id, lat, p) ==
  [ID |-> id, Latitude |-> lat, Longitude |-> Meridian, farm_probability |-> p]

FreeFiles ==
  UNION { { [i \in 1..n |-> Farm(i, ks[i].lat, ks[i].p)] : ks \in [1..n -> Kinds] } :
          n \in 0..MaxMarkers }

GroupSize(big, g) == IF g \in big THEN 3 ELSE 2

RECURSIVE GroupedFarms(_, _, _, _)
GroupedFarms(n, big, g, next) ==
  IF g > n THEN <<>>
  ELSE [j \in 1..GroupSize(big, g) |-> Farm(next + j - 1, 1700 + 100 * g + (j - 1), 90)]
         \o GroupedFarms(n, big, g + 1, next + GroupSize(big, g))

GroupedFiles ==
  UNION { { GroupedFarms(n, big, 1, 1) : big \in SUBSET {1, 2, n} } : n \in {3, MaxGroups} }

DataFiles == FreeFiles \cup GroupedFiles

(***************************************************************************)
(* farm-map/app.js: distanceKm.  d = 2 R atan2(sqrt x, sqrt(1 - x)) with   *)
(* x = sin^2(dLat/2) + sin^2(dLng/2) cos lat1 cos lat2.  For two points of *)
(* one meridian dLng = 0, x = sin^2(dLat/2) and d = R |dLat| (radians):    *)
(* with R = 6371 km and latitudes in hundredths of a degree,               *)
(* d = 6371000 * pi / 18000 * |lat2 - lat1| metres, pi taken as 355/113.   *)
(***************************************************************************)
distanceKm(a, b) ==
  (6371 * 355 * Abs(b.lat - a.lat)) \div (18 * 113)

RADIUS_KM == 5000    \* const RADIUS_KM = 5, in metres
MIN_POINTS == 2      \* const MIN_POINTS = 2
STRONG_P == 90       \* m.farmProbability >= 0.9
TOP_ZONES == 8       \* zones.slice(0, 8)

\* L.circleMarker([farm.Latitude, farm.Longitude]); marker.farmProbability = ...
Marker(farm) ==
  [latlng |-> [lat |-> farm.Latitude, lng |-> farm.Longitude],
   farmProbability |-> farm.farm_probability,
   farmID |-> farm.ID]

\* data.Farms.forEach(farm => { ...; allMarkers.push(marker) })
MakeMarkers(farms) == [i \in DOMAIN farms |-> Marker(farms[i])]

(***************************************************************************)
(* applyFilter's loop: the markers added to clusterGroup and plainLayer,   *)
(* as indices into allMarkers in the order of the adds.                    *)
(***************************************************************************)
PassesFilterStrict(p, minP) == p > minP
PassesFilterBelow(p, minP) == p <= minP
PassesFilter(p, minP) == p >= minP

RECURSIVE FilterFrom(_, _, _)
FilterFrom(markers, minP, i) ==
  IF i > Len(markers) THEN <<>>
  ELSE (IF PassesFilter(markers[i].farmProbability, minP) THEN <<i>> ELSE <<>>)
         \o FilterFrom(markers, minP, i + 1)

FilterMarkers(markers, minP) == FilterFrom(markers, minP, 1)

(***************************************************************************)
(* computeHighDensityZones, lines 175-215: radius linkage.                 *)
(***************************************************************************)
IsStrongAny(m) == TRUE
IsStrong(m) == m.farmProbability >= STRONG_P

RECURSIVE StrongFrom(_, _)
StrongFrom(markers, i) ==
  IF i > Len(markers) THEN <<>>
  ELSE (IF IsStrong(markers[i]) THEN <<i>> ELSE <<>>) \o StrongFrom(markers, i + 1)

\* const strong = allMarkers.filter(m => m.farmProbability >= 0.9)
StrongOf(markers) == StrongFrom(markers, 1)

\* the test of the inner loop: if (i === j || used.has(j)) return; if (distance <= R)
JoinsIgnoringUsed(markers, st, i, j, used) ==
  /\ i # j
  /\ distanceKm(markers[st[i]].latlng, markers[st[j]].latlng) <= RADIUS_KM
JoinsAnyDistance(markers, st, i, j, used) ==
  /\ i # j
  /\ j \notin used
Joins(markers, st, i, j, used) ==
  /\ i # j
  /\ j \notin used
  /\ distanceKm(markers[st[i]].latlng, markers[st[j]].latlng) <= RADIUS_KM

\* strong.forEach((n, j) => ...) for the seed i: [used, members] after the scan
RECURSIVE InnerLoop(_, _, _, _, _, _)
InnerLoop(markers, st, i, j, used, mem) ==
  IF j > Len(st) THEN [used |-> used, members |-> mem]
  ELSE IF Joins(markers, st, i, j, used)
       THEN InnerLoop(markers, st, i, j + 1, used \cup {j}, Append(mem, st[j]))
       ELSE InnerLoop(markers, st, i, j + 1, used, mem)

\* strong.forEach((m, i) => ...): the members arrays of the emitted clusters
RECURSIVE OuterLoop(_, _, _, _, _)
OuterLoop(markers, st, i, used, found) ==
  IF i > Len(st) THEN found
  ELSE IF i \in used THEN OuterLoop(markers, st, i + 1, used, found)
  ELSE LET r == InnerLoop(markers, st, i, 1, used \cup {i}, <<st[i]>>)
       IN  OuterLoop(markers, st, i + 1, r.used,
                     IF Len(r.members) >= MIN_POINTS THEN Append(found, r.members)
                     ELSE found)

\* the clusters of a pass; none when strong.length < 2
ClustersOf(markers) ==
  LET st == StrongOf(markers)
  IN  IF Len(st) < 2 THEN <<>> ELSE OuterLoop(markers, st, 1, {}, <<>>)

\* members.reduce((s, m) => s + m.getLatLng().lat, 0) / members.length,
\* kept to 1e-5 degree
Mean(markers, mem, f) ==
  (1000 * SumSeq([k \in DOMAIN mem |-> markers[mem[k]].latlng[f]])) \div Len(mem)

\* zones.push({ center: L.latLng(lat, lng), total: members.length, score: members.length })
\* `obj` is the identity of the pushed object: its position in discovery order.
Zone(markers, mem, k) ==
  [center |-> [lat |-> Mean(markers, mem, "lat"), lng |-> Mean(markers, mem, "lng")],
   total |-> Len(mem), score |-> Len(mem), obj |-> k]

ZonesOf(markers, found) == [k \in DOMAIN found |-> Zone(markers, found[k], k)]

(***************************************************************************)
(* zones.sort((a, b) => b.score - a.score): Array.prototype.sort is stable *)
(* (ECMAScript 2019), modelled as an insertion sort that puts an element   *)
(* behind every element the comparator does not order after it.            *)
(***************************************************************************)
GoesBeforeUnstable(z, y) == z.score >= y.score
GoesBefore(z, y) == z.score > y.score      \* comparator(z, y) < 0

RECURSIVE InsertZone(_, _)
InsertZone(sorted, z) ==
  IF sorted = <<>> THEN <<z>>
  ELSE IF GoesBefore(z, Head(sorted)) THEN <<z>> \o sorted
  ELSE <<Head(sorted)>> \o InsertZone(Tail(sorted), z)

SortZonesNone(zs) == zs
RECURSIVE SortZones(_)
SortZones(zs) ==
  IF zs = <<>> THEN <<>>
  ELSE InsertZone(SortZones(SubSeq(zs, 1, Len(zs) - 1)), zs[Len(zs)])

\* zones.slice(0, 8)
SliceAll(zs) == zs
SliceTop(zs) == SubSeq(zs, 1, Min(TOP_ZONES, Len(zs)))

\* L.circle(zone.center, { radius: 1500 + zone.total * 600 }), popup "#index + 1"
Circle(zone, index) ==
  [center |-> zone.center, radius |-> 1500 + zone.total * 600, rank |-> index + 1]

(***************************************************************************)
(* renderZonesList: list.innerHTML = ''; the panel is active and lists the *)
(* zones only when zones are enabled and window.farmZones is not empty.    *)
(***************************************************************************)
ListItem(zone, index) == [rank |-> index + 1, total |-> zone.total]

renderZonesList(enabled, fz) ==
  IF ~enabled \/ fz = <<>>
  THEN /\ panelActive' = FALSE
       /\ zonesList' = <<>>
  ELSE /\ panelActive' = TRUE
       /\ zonesList' = [k \in DOMAIN fz |-> ListItem(fz[k], k - 1)]

(***************************************************************************)
(* computeHighDensityZones, run with the given markers and flag (the       *)
(* values the handler has just assigned).                                  *)
(***************************************************************************)
\* the list the pushes of lines 224-245 start from: window.farmZones = []
ResetKeepsOld(old) == old
ResetFarmZones(old) == <<>>

\* zoneLayer.clearLayers()
KeepLayers(layer) == layer
ClearLayers(layer) == <<>>

\* line 165: if (!zonesEnabled) { clear; render; return }
SkipsPassNever(enabled) == FALSE
SkipsPassAlways(enabled) == TRUE
SkipsPass(enabled) == ~enabled

computeHighDensityZones(markers, enabled) ==
  IF SkipsPass(enabled)
  THEN /\ zoneLayer' = ClearLayers(zoneLayer)
       /\ renderZonesList(enabled, farmZones)
       /\ passRan' = FALSE
       /\ UNCHANGED <<farmZones, strong, members>>
  ELSE LET found  == ClustersOf(markers)
           top    == SliceTop(SortZones(ZonesOf(markers, found)))
           pushed == ResetFarmZones(farmZones) \o top
       IN  /\ zoneLayer' = ClearLayers(zoneLayer) \o [k \in DOMAIN top |-> Circle(top[k], k - 1)]
           /\ farmZones' = pushed
           /\ renderZonesList(enabled, pushed)
           /\ strong' = StrongOf(markers)
           /\ members' = found
           /\ passRan' = TRUE

\* a handler that does not reach computeHighDensityZones
NoZonePass ==
  UNCHANGED <<farmZones, zoneLayer, panelActive, zonesList, strong, members, passRan>>

(***************************************************************************)
(* applyFilter(minP), minP in percent.                                     *)
(***************************************************************************)
applyFilter(markers, minP) ==
  LET shown == FilterMarkers(markers, minP)
  IN  /\ clusterGroup' = shown
      /\ plainLayer' = shown
      /\ probabilityMeta' = [pct |-> minP, count |-> Len(shown)]
      /\ computeHighDensityZones(markers, zonesEnabled)

(***************************************************************************)
(* The handlers of the map explorer.                                       *)
(***************************************************************************)
\* fetch('vietnam_json.json').then(r => r.json()).then(data => { ...; applyFilter(0.5) })
LoadData ==
  /\ ~loaded
  /\ loaded' = TRUE
  /\ allMarkers' = allMarkers \o MakeMarkers(farmsJson)
  /\ applyFilter(allMarkers', 50)
  /\ UNCHANGED <<questVars, rescoreVars, voteVars, gameVars, tinderVars>>
  /\ UNCHANGED <<farmsJson, zonesEnabled, sliderValue, timers, filterTimeout,
                 sinceInput, inBurst>>

\* clearTimeout(filterTimeout)
KeepTimers(ts, id) == ts
ClearTimeout(ts, id) == {t \in ts : t.id # id}

\* the id setTimeout returns: one no pending timer has
NewTimerId(ts) ==
  CHOOSE i \in 1..(Cardinality(ts) + 1) :
    /\ \A t \in ts : t.id # i
    /\ \A k \in 1..(i - 1) : \E t \in ts : t.id = k

\* document.addEventListener('input', ...) on #probabilitySlider
SliderInput(value) ==
  LET kept == ClearTimeout(timers, filterTimeout)
      id   == NewTimerId(kept)
  IN  /\ sliderValue' = value
      /\ timers' = kept \cup {[id |-> id, value |-> value, left |-> DebounceTicks]}
      /\ filterTimeout' = id
      /\ sinceInput' = 0
      /\ inBurst' = (sinceInput < DebounceTicks)
      /\ NoZonePass
      /\ UNCHANGED <<questVars, rescoreVars, voteVars, gameVars, tinderVars>>
  /\ UNCHANGED <<farmsJson, loaded, allMarkers, clusterGroup, plainLayer,
                     probabilityMeta, zonesEnabled>>

\* the clock advances by one tick
Tick ==
  /\ \/ sinceInput < DebounceTicks
     \/ \E t \in timers : t.left > 0
  /\ timers' = {[t EXCEPT !.left = IF t.left > 0 THEN t.left - 1 ELSE 0] : t \in timers}
  /\ sinceInput' = Min(sinceInput + 1, DebounceTicks)
  /\ NoZonePass
  /\ UNCHANGED <<questVars, rescoreVars, voteVars, gameVars, tinderVars>>
  /\ UNCHANGED <<farmsJson, loaded, allMarkers, clusterGroup, plainLayer,
                 probabilityMeta, zonesEnabled, sliderValue, filterTimeout,
                 inBurst>>

\* the callback of setTimeout(() => applyFilter(value / 100), 150)
TimerFires(t) ==
  /\ t \in timers
  /\ t.left = 0
  /\ timers' = timers \ {t}
  /\ applyFilter(allMarkers, t.value)
  /\ UNCHANGED <<questVars, rescoreVars, voteVars, gameVars, tinderVars>>
  /\ UNCHANGED <<farmsJson, loaded, allMarkers, zonesEnabled, sliderValue,
                 filterTimeout, sinceInput, inBurst>>

\* document.getElementById('toggleZones').onclick
ToggleZones ==
  /\ zonesEnabled' = ~zonesEnabled
  /\ computeHighDensityZones(allMarkers, zonesEnabled')
  /\ UNCHANGED <<questVars, rescoreVars, voteVars, gameVars, tinderVars>>
  /\ UNCHANGED <<farmsJson, loaded, allMarkers, clusterGroup, plainLayer,
                 probabilityMeta, sliderValue, timers, filterTimeout, sinceInput,
                 inBurst>>

\* if (zonesEnabled) computeHighDensityZones()
RecomputeIfEnabled ==
  /\ IF zonesEnabled THEN computeHighDensityZones(allMarkers, zonesEnabled)
     ELSE NoZonePass
  /\ UNCHANGED <<questVars, rescoreVars, voteVars, gameVars, tinderVars>>
  /\ UNCHANGED <<farmsJson, loaded, allMarkers, clusterGroup, plainLayer,
                 probabilityMeta, zonesEnabled, sliderValue, timers, filterTimeout,
                 sinceInput, inBurst>>

\* map.on('moveend zoomend', ...)
MoveEnd == RecomputeIfEnabled

\* clusterGroup.on('clusteringend', ...)
ClusteringEnd == RecomputeIfEnabled

(***************************************************************************)
(* The map explorer of version 0-1 (farm-map/app.js, lines 408-780).  Its  *)
(* handlers are those of version 0-2; its computeHighDensityZones rescores *)
(* the layers that clusterGroup.eachLayer visits.  Which layers these are  *)
(* is decided by the marker cluster library from the markers in the group  *)
(* and the zoom: any division of the markers of the group, in their order  *)
(* along the meridian, into runs; a run of one marker is a plain marker    *)
(* (it has no getAllChildMarkers), a longer run a cluster.  The division   *)
(* into plain markers only is among them.                                  *)
(*                                                                         *)
(* Its data files: up to MaxClustered farms 1.1 km apart, each of          *)
(* probability 0.5 or 0.9.                                                 *)
(***************************************************************************)
RescoreFiles ==
  UNION { { [i \in 1..n |-> Farm(i, 1600 + i, ps[i])] : ps \in [1..n -> {50, 90}] } :
          n \in 0..MaxClustered }

\* the runs of `shown` that end at the positions of `cuts` and at its end
RECURSIVE Runs(_, _, _, _)
Runs(shown, cuts, i, cur) ==
  IF i > Len(shown) THEN <<>>
  ELSE IF i = Len(shown) \/ i \in cuts
       THEN <<Append(cur, shown[i])>> \o Runs(shown, cuts, i + 1, <<>>)
       ELSE Runs(shown, cuts, i + 1, Append(cur, shown[i]))

Clusterings(shown) ==
  { Runs(shown, cuts, 1, <<>>) : cuts \in SUBSET (1..(Len(shown) - 1)) }

MIN_CLUSTER_MARKERS == 4   \* if (markers.length < 4) return
MIN_HIGH90 == 1            \* if (high90.length < 1) return

\* markers.filter(m => m.farmProbability >= 0.9).length
High90(markers, layer) ==
  Cardinality({k \in DOMAIN layer : markers[layer[k]].farmProbability >= STRONG_P})

\* the layer passes the three early returns of the eachLayer callback
IsCandidateLayer(markers, layer) ==
  /\ Len(layer) >= 2                       \* cluster.getAllChildMarkers exists
  /\ Len(layer) >= MIN_CLUSTER_MARKERS
  /\ High90(markers, layer) >= MIN_HIGH90

\* the positions in `layers` of the layers that become candidates, in visit order
RECURSIVE CandidateLayers(_, _, _)
CandidateLayers(markers, layers, k) ==
  IF k > Len(layers) THEN <<>>
  ELSE (IF IsCandidateLayer(markers, layers[k]) THEN <<k>> ELSE <<>>)
         \o CandidateLayers(markers, layers, k + 1)

\* candidates.push({ center: cluster.getLatLng(), total, high90, score }) with
\* score = high90 * Math.log(total + 1).  The model keeps e^score, the integer
\* (total + 1)^high90, which orders and equates candidates as score does; the
\* centre of a cluster is the mean of its markers; `obj` is the identity of the
\* pushed object, its position among the candidates.
RescoredZone(markers, layer, k) ==
  [center |-> [lat |-> Mean(markers, layer, "lat"), lng |-> Mean(markers, layer, "lng")],
   total |-> Len(layer),
   high90 |-> High90(markers, layer),
   score |-> (Len(layer) + 1) ^ High90(markers, layer),
   obj |-> k]

\* L.circle(zone.center, { radius: 2200 + zone.high90 * 500 }), popup "#index + 1"
RescoredCircle(zone, index) ==
  [center |-> zone.center, radius |-> 2200 + zone.high90 * 500, rank |-> index + 1]

\* computeHighDensityZones of version 0-1 over the layers eachLayer visits
rescoreZones(markers, layers, enabled) ==
  IF SkipsPass(enabled)
  THEN /\ zoneLayer' = ClearLayers(zoneLayer)
       /\ renderZonesList(enabled, farmZones)
       /\ passRan' = FALSE
       /\ UNCHANGED <<farmZones, strong, members, everDrawn>>
  ELSE LET cand   == CandidateLayers(markers, layers, 1)
           zs     == [k \in DOMAIN cand |-> RescoredZone(markers, layers[cand[k]], k)]
           top    == SliceTop(SortZones(zs))
           pushed == ResetFarmZones(farmZones) \o top
       IN  /\ zoneLayer' = ClearLayers(zoneLayer)
                              \o [k \in DOMAIN top |-> RescoredCircle(top[k], k - 1)]
           /\ farmZones' = pushed
           /\ renderZonesList(enabled, pushed)
           /\ strong' = <<>>
           /\ members' = [k \in DOMAIN cand |-> layers[cand[k]]]
           /\ passRan' = TRUE
           /\ everDrawn' = (everDrawn \/ top # <<>>)

\* applyFilter(minP): the group is emptied and refilled, the library clusters anew
applyFilterRescore(markers, minP) ==
  LET shown == FilterMarkers(markers, minP)
  IN  /\ clusterGroup' = shown
      /\ plainLayer' = shown
      /\ probabilityMeta' = [pct |-> minP, count |-> Len(shown)]
      /\ \E layers \in Clusterings(shown) :
           /\ clusterLayers' = layers
           /\ rescoreZones(markers, layers, zonesEnabled)

LoadDataRescore ==
  /\ ~loaded
  /\ loaded' = TRUE
  /\ allMarkers' = allMarkers \o MakeMarkers(farmsJson)
  /\ applyFilterRescore(allMarkers', 50)
  /\ UNCHANGED <<questVars, voteVars, gameVars, tinderVars>>
  /\ UNCHANGED <<farmsJson, zonesEnabled, sliderValue, timers, filterTimeout,
                 sinceInput, inBurst>>

TimerFiresRescore(t) ==
  /\ t \in timers
  /\ t.left = 0
  /\ timers' = timers \ {t}
  /\ applyFilterRescore(allMarkers, t.value)
  /\ UNCHANGED <<questVars, voteVars, gameVars, tinderVars>>
  /\ UNCHANGED <<farmsJson, loaded, allMarkers, zonesEnabled, sliderValue,
                 filterTimeout, sinceInput, inBurst>>

ToggleZonesRescore ==
  /\ zonesEnabled' = ~zonesEnabled
  /\ rescoreZones(allMarkers, clusterLayers, zonesEnabled')
  /\ UNCHANGED <<questVars, voteVars, gameVars, tinderVars>>
  /\ UNCHANGED <<farmsJson, loaded, allMarkers, clusterGroup, plainLayer,
                 probabilityMeta, sliderValue, timers, filterTimeout, sinceInput,
                 inBurst, clusterLayers>>

\* a moveend handler that leaves the recompute to a later turn
MoveEndDeferred ==
  /\ \E layers \in Clusterings(clusterGroup) : clusterLayers' = layers
  /\ NoZonePass
  /\ UNCHANGED <<questVars, voteVars, gameVars, tinderVars, everDrawn>>
  /\ UNCHANGED <<farmsJson, loaded, allMarkers, clusterGroup, plainLayer,
                 probabilityMeta, zonesEnabled, sliderValue, timers, filterTimeout,
                 sinceInput, inBurst>>

\* map.on('moveend zoomend', ...): a zoom makes the library cluster anew
MoveEndRescore ==
  /\ \E layers \in Clusterings(clusterGroup) :
       /\ clusterLayers' = layers
       /\ IF zonesEnabled THEN rescoreZones(allMarkers, layers, zonesEnabled)
          ELSE NoZonePass /\ UNCHANGED everDrawn
  /\ UNCHANGED <<questVars, voteVars, gameVars, tinderVars>>
  /\ UNCHANGED <<farmsJson, loaded, allMarkers, clusterGroup, plainLayer,
                 probabilityMeta, zonesEnabled, sliderValue, timers, filterTimeout,
                 sinceInput, inBurst>>

\* clusterGroup.on('clusteringend', ...)
ClusteringEndRescore ==
  /\ IF zonesEnabled THEN rescoreZones(allMarkers, clusterLayers, zonesEnabled)
     ELSE NoZonePass /\ UNCHANGED everDrawn
  /\ UNCHANGED <<questVars, voteVars, gameVars, tinderVars>>
  /\ UNCHANGED <<farmsJson, loaded, allMarkers, clusterGroup, plainLayer,
                 probabilityMeta, zonesEnabled, sliderValue, timers, filterTimeout,
                 sinceInput, inBurst, clusterLayers>>

(***************************************************************************)
(* The map explorer of version 0-3 (unnamed/part_000): voting.  Its zone   *)
(* computation and its filter loop are those of version 0-2; applyFilter   *)
(* also calls updateVoteStyles.                                            *)
(*                                                                         *)
(* Its data files: up to MaxVoteMarkers farms at one site with probability *)
(* 0.79, 0.8 or 0.9.  votes_seed.json holds a vote for no farm or for farm *)
(* 1; localStorage holds no vote or, from an earlier visit, one for farm 1.*)
(***************************************************************************)
VoteKinds == {79, 80, 90}

\* the counter's text before it is written, localStorage without votes, and the
\* user data loadUserData creates
NotWritten == 0 - 1
NoVotes == [id \in {} |-> "YES"]
NewUserData == [totalVotes |-> 0, highConfidenceVotes |-> 0, firstTimeVotes |-> 0, score |-> 0]

VoteFiles ==
  UNION { { [i \in 1..n |-> Farm(i, 1600, ps[i])] : ps \in [1..n -> VoteKinds] } :
          n \in 0..MaxVoteMarkers }

SeedFiles == { {}, {1} }

StoredVotes == { NoVotes, [id \in {1} |-> "YES"] }

\* marker.hasVote = userVoted || seedVoted
HasVoteLocalOnly(id, local, seed) == id \in DOMAIN local
HasVote(id, local, seed) == id \in DOMAIN local \/ id \in seed

NEEDS_REVIEW_P == 80   \* m.farmProbability >= 0.8

\* countUnvotedHigh(), hv the hasVote of the markers
countUnvotedHigh(markers, hv) ==
  Cardinality({i \in DOMAIN markers :
                 markers[i].farmProbability >= NEEDS_REVIEW_P /\ ~hv[i]})

\* updateVoteStyles() with the given markers, stored votes and seed votes; it ends
\* with updateUnvotedCounter()
updateVoteStyles(markers, local, seed) ==
  LET hv == [i \in DOMAIN markers |-> HasVote(markers[i].farmID, local, seed)]
  IN  /\ hasVote' = hv
      /\ unvotedCounter' = countUnvotedHigh(markers, hv)

\* calculateVoteScore(marker, isFirstVote)
calculateVoteScore(marker, isFirstVote) ==
  1 + (IF marker.farmProbability >= STRONG_P THEN 2 ELSE 0)
    + (IF isFirstVote THEN 1 ELSE 0)

\* (applyFilterKeepsStyles: an applyFilter that leaves out updateVoteStyles(); a
\*  new marker keeps the hasVote = false it was made with)
applyFilterKeepsStyles(markers, minP) ==
  /\ applyFilter(markers, minP)
  /\ hasVote' = [i \in DOMAIN markers |->
                   IF i \in DOMAIN hasVote THEN hasVote[i] ELSE FALSE]
  /\ UNCHANGED unvotedCounter

\* applyFilter(minP) of version 0-3
applyFilterVotes(markers, minP) ==
  /\ applyFilter(markers, minP)
  /\ updateVoteStyles(markers, farmVotes, seedVotes)

\* fetch('vietnam_json.json').then(...): markers are made with hasVote = false,
\* then applyFilter(0.5)
LoadDataVotes ==
  /\ ~loaded
  /\ loaded' = TRUE
  /\ allMarkers' = allMarkers \o MakeMarkers(farmsJson)
  /\ applyFilterVotes(allMarkers', 50)
  /\ UNCHANGED <<questVars, rescoreVars, gameVars, tinderVars>>
  /\ UNCHANGED <<farmVotes, seedVotes, seedFetch, userData>>
  /\ UNCHANGED <<farmsJson, zonesEnabled, sliderValue, timers, filterTimeout,
                 sinceInput, inBurst>>

\* fetch('votes_seed.json').then(data => { seedVotes = data; updateVoteStyles() })
LoadSeedVotes(seeds) ==
  /\ seedFetch = "pending"
  /\ seedFetch' = "done"
  /\ seedVotes' = seeds
  /\ updateVoteStyles(allMarkers, farmVotes, seeds)
  /\ UNCHANGED <<questVars, rescoreVars, gameVars, tinderVars, mapVars>>
  /\ UNCHANGED <<farmVotes, userData>>

\* .catch(() => console.warn('No seed votes found'))
SeedVotesMissing ==
  /\ seedFetch = "pending"
  /\ seedFetch' = "failed"
  /\ UNCHANGED <<questVars, rescoreVars, gameVars, tinderVars, mapVars>>
  /\ UNCHANGED <<farmVotes, seedVotes, hasVote, unvotedCounter, userData>>

\* the marker whose popup holds the button: allMarkers.find(m => m.farmID === String(id))
MarkerOf(id) ==
  allMarkers[CHOOSE i \in DOMAIN allMarkers :
               /\ allMarkers[i].farmID = id
               /\ \A k \in 1..(i - 1) : allMarkers[k].farmID # id]

\* vote(id, yes), called from the popup of the marker with this farm id
Vote(id, yes) ==
  /\ \E i \in DOMAIN allMarkers : allMarkers[i].farmID = id
  /\ userData.totalVotes < MaxVotes
  /\ LET isFirstVote == id \notin DOMAIN farmVotes
         votes == [k \in DOMAIN farmVotes \cup {id} |->
                     IF k = id THEN (IF yes THEN "YES" ELSE "NO") ELSE farmVotes[k]]
         marker == MarkerOf(id)
     IN  /\ farmVotes' = votes
         /\ userData' =
              [totalVotes |-> userData.totalVotes + 1,
               highConfidenceVotes |->
                 userData.highConfidenceVotes
                   + (IF marker.farmProbability >= STRONG_P THEN 1 ELSE 0),
               firstTimeVotes |->
                 userData.firstTimeVotes + (IF isFirstVote THEN 1 ELSE 0),
               score |-> userData.score + calculateVoteScore(marker, isFirstVote)]
         /\ updateVoteStyles(allMarkers, votes, seedVotes)
  /\ UNCHANGED <<questVars, rescoreVars, gameVars, tinderVars, mapVars>>
  /\ UNCHANGED <<seedVotes, seedFetch>>

\* cancelVote(id), called from the popup of the marker with this farm id
CancelVote(id) ==
  /\ \E i \in DOMAIN allMarkers : allMarkers[i].farmID = id
  /\ IF id \notin DOMAIN farmVotes
     THEN UNCHANGED <<farmVotes, hasVote, unvotedCounter>>
     ELSE LET votes == [k \in DOMAIN farmVotes \ {id} |-> farmVotes[k]]
          IN  /\ farmVotes' = votes
              /\ updateVoteStyles(allMarkers, votes, seedVotes)
  /\ UNCHANGED <<questVars, rescoreVars, gameVars, tinderVars, mapVars>>
  /\ UNCHANGED <<seedVotes, seedFetch, userData>>

\* the callback of setTimeout(() => applyFilter(e.target.value / 100), 150): it
\* reads the slider when it runs; `value` is what the user has set it to
FilterTimerFires(value) ==
  /\ sliderValue' = value
  /\ applyFilterVotes(allMarkers, value)
  /\ UNCHANGED <<questVars, rescoreVars, gameVars, tinderVars>>
  /\ UNCHANGED <<farmVotes, seedVotes, seedFetch, userData>>
  /\ UNCHANGED <<farmsJson, loaded, allMarkers, zonesEnabled, timers, filterTimeout,
                 sinceInput, inBurst>>

(***************************************************************************)
(* Zone Quest (farm-map-game/farm-map-zones/app.js).                       *)
(*                                                                         *)
(* Its data files: free-form files of up to MaxFarms farms of four kinds   *)
(* (probability exactly 0.5 and 0.6 in one grid cell, 0.6 in the cell      *)
(* north of it, 0.6 at negative coordinates), and block files: a run of    *)
(* MIN_ZONE_FARMS - 1 .. + 1 farms in one cell, the first of them at       *)
(* probability 0.5 or 0.6, followed by a run of 0 or MIN_ZONE_FARMS .. + 2 *)
(* farms in a second cell.                                                 *)
(***************************************************************************)
MIN_FARM_PROBABILITY == 50   \* MIN_FARM_PROBABILITY: 0.5
ZONE_GRID_SIZE == 50         \* ZONE_GRID_SIZE: 0.5 degrees
MIN_ZONE_FARMS == 10
FIRST_ZONE_UNLOCK_PRICE == 0
ZONE_UNLOCK_BASE_PRICE == 1000
ZONE_UNLOCK_PRICE_INCREMENT == 500

\* What JavaScript reads from a field the record lacks (undefined) and what
\* arithmetic on it yields (NaN): one value outside the range of the data.  Every
\* comparison with it is false, and the text of a key made from it is 'NaN'.
Undefined == 0 - 1000000

QuestFarm(id, lat, lng, p) ==
  [ID |-> id, Latitude |-> lat, Longitude |-> lng, farm_probability |-> p]

QuestKinds == { [lat |-> 1610, lng |-> 10610, p |-> 50],
                [lat |-> 1610, lng |-> 10610, p |-> 60],
                [lat |-> 1660, lng |-> 10610, p |-> 60],
                [lat |-> 0 - 10, lng |-> 0 - 10, p |-> 60] }

QuestFreeFiles ==
  UNION { { [i \in 1..n |-> QuestFarm(i, ks[i].lat, ks[i].lng, ks[i].p)] :
              ks \in [1..n -> QuestKinds] } : n \in 0..MaxFarms }

BlockFile(nA, pFirst, nB) ==
  [i \in 1..(nA + nB) |->
     IF i <= nA
     THEN QuestFarm(i, 1600 + i, 10610, IF i = 1 THEN pFirst ELSE 60)
     ELSE QuestFarm(i, 1650 + (i - nA), 10610, 90)]

QuestBlockFiles ==
  { BlockFile(nA, pFirst, nB) :
      nA \in (MIN_ZONE_FARMS - 1)..(MIN_ZONE_FARMS + 1),
      pFirst \in {50, 60},
      nB \in {0} \cup (MIN_ZONE_FARMS..(MIN_ZONE_FARMS + 2)) }

QuestFiles == QuestFreeFiles \cup QuestBlockFiles

\* Data files of k rows of MIN_ZONE_FARMS farms, the rows 0.5 degrees apart: north
\* of the equator and east of Greenwich (sign 1) each row is one cell, at the
\* mirrored coordinates (sign -1) the first farm of a row lies on a cell border.
ZoneRowFile(k, sign) ==
  [i \in 1..(k * MIN_ZONE_FARMS) |->
     QuestFarm(i,
               sign * (1600 + ZONE_GRID_SIZE * ((i - 1) \div MIN_ZONE_FARMS)
                            + ((i - 1) % MIN_ZONE_FARMS)),
               sign * 10610, 60)]

ZoneRowFiles == { ZoneRowFile(k, sign) : k \in 0..MaxZones, sign \in {1, 0 - 1} }

\* Data files with malformed records: free-form files of up to MaxFarms records,
\* each well-formed or lacking its Latitude, its Longitude or its
\* farm_probability, and files of MIN_ZONE_FARMS - 1 .. + 1 records that all lack
\* the same field, followed by 0 or MIN_ZONE_FARMS well-formed records of one cell.
MalformedKinds == { [lat |-> 1610, lng |-> 10610, p |-> 60],
                    [lat |-> Undefined, lng |-> 10610, p |-> 60],
                    [lat |-> 1610, lng |-> Undefined, p |-> 60],
                    [lat |-> 1610, lng |-> 10610, p |-> Undefined] }

MalformedFreeFiles ==
  UNION { { [i \in 1..n |-> QuestFarm(i, ks[i].lat, ks[i].lng, ks[i].p)] :
              ks \in [1..n -> MalformedKinds] } : n \in 0..MaxFarms }

MalformedBlock(nBad, kind, nGood) ==
  [i \in 1..(nBad + nGood) |->
     IF i <= nBad THEN QuestFarm(i, kind.lat, kind.lng, kind.p)
     ELSE QuestFarm(i, 1650 + (i - nBad), 10610, 90)]

MalformedBlockFiles ==
  { MalformedBlock(nBad, kind, nGood) :
      nBad \in (MIN_ZONE_FARMS - 1)..(MIN_ZONE_FARMS + 1),
      kind \in MalformedKinds,
      nGood \in {0, MIN_ZONE_FARMS} }

MalformedFiles == MalformedFreeFiles \cup MalformedBlockFiles

\* .filter(f => f.farm_probability > GAME_CONSTANTS.MIN_FARM_PROBABILITY)
KeepsFarm(f) ==
  /\ f.farm_probability # Undefined
  /\ f.farm_probability > MIN_FARM_PROBABILITY

\* .map(f => ({ id: f.ID, lat: f.Latitude, lng: f.Longitude, probability: ... }))
QuestRecord(f) ==
  [id |-> f.ID, lat |-> f.Latitude, lng |-> f.Longitude, probability |-> f.farm_probability]

RECURSIVE LoadFarms(_)
LoadFarms(farms) ==
  IF farms = <<>> THEN <<>>
  ELSE (IF KeepsFarm(Head(farms)) THEN <<QuestRecord(Head(farms))>> ELSE <<>>)
         \o LoadFarms(Tail(farms))

\* the key `${gridX},${gridY}` with gridX = Math.floor(farm.lng / gridSize) and
\* gridY = Math.floor(farm.lat / gridSize); the pair stands for the string, which
\* is different for different pairs.  \div rounds towards minus infinity, as
\* Math.floor does.
GridIndexTruncated(x) ==
  IF x = Undefined THEN Undefined
  ELSE IF x < 0 THEN 0 - ((0 - x) \div ZONE_GRID_SIZE) ELSE x \div ZONE_GRID_SIZE
GridIndex(x) == IF x = Undefined THEN Undefined ELSE x \div ZONE_GRID_SIZE

CellKey(farm) == <<GridIndex(farm.lng), GridIndex(farm.lat)>>

\* the keys of zoneMap in insertion order (the order of Object.entries)
RECURSIVE CellKeys(_, _)
CellKeys(farms, seen) ==
  IF farms = <<>> THEN seen
  ELSE CellKeys(Tail(farms),
                IF CellKey(Head(farms)) \in Range(seen) THEN seen
                ELSE Append(seen, CellKey(Head(farms))))

\* zoneMap[key].farms
CellFarms(farms, key) == SelectSeq(farms, LAMBDA f : CellKey(f) = key)

\* data.farms.reduce((sum, f) => sum + f.lat, 0) / data.farms.length, to 1e-5
QuestMean(fs, f) ==
  IF \E k \in DOMAIN fs : fs[k][f] = Undefined THEN Undefined
  ELSE (1000 * SumSeq([k \in DOMAIN fs |-> fs[k][f]])) \div Len(fs)

\* the object the .map callback of createZones returns
CellZone(farms, key) ==
  LET fs == CellFarms(farms, key)
  IN  [id |-> key, farms |-> fs,
       centerLat |-> QuestMean(fs, "lat"),
       centerLng |-> QuestMean(fs, "lng"),
       avgProb |-> QuestMean(fs, "probability")]

\* .filter(z => z.farms.length >= GAME_CONSTANTS.MIN_ZONE_FARMS)
IsZoneAbove(z) == Len(z.farms) > MIN_ZONE_FARMS
IsZone(z) == Len(z.farms) >= MIN_ZONE_FARMS

\* .sort((a, b) => b.farms.length - a.farms.length), a stable sort
RECURSIVE InsertCell(_, _)
InsertCell(sorted, z) ==
  IF sorted = <<>> THEN <<z>>
  ELSE IF Len(z.farms) > Len(Head(sorted).farms) THEN <<z>> \o sorted
  ELSE <<Head(sorted)>> \o InsertCell(Tail(sorted), z)

SortCellsNone(zs) == zs
RECURSIVE SortCells(_)
SortCells(zs) ==
  IF zs = <<>> THEN <<>>
  ELSE InsertCell(SortCells(SubSeq(zs, 1, Len(zs) - 1)), zs[Len(zs)])

\* zone.unlockPrice, i the 0-based position
\* (UnlockPriceStep: the increment counted from the first zone)
UnlockPriceStep(i) ==
  IF i = 0 THEN FIRST_ZONE_UNLOCK_PRICE
  ELSE ZONE_UNLOCK_BASE_PRICE + ZONE_UNLOCK_PRICE_INCREMENT * i
UnlockPrice(i) ==
  IF i = 0 THEN FIRST_ZONE_UNLOCK_PRICE
  ELSE ZONE_UNLOCK_BASE_PRICE + ZONE_UNLOCK_PRICE_INCREMENT * (i - 1)

\* createZones(): the new value of `zones`; name stands for 'Zone ' + name
createZones(farms) ==
  LET keys   == CellKeys(farms, <<>>)
      cells  == [k \in DOMAIN keys |-> CellZone(farms, keys[k])]
      sorted == SortCells(SelectSeq(cells, IsZone))
  IN  [i \in DOMAIN sorted |->
         [id |-> sorted[i].id, farms |-> sorted[i].farms,
          centerLat |-> sorted[i].centerLat, centerLng |-> sorted[i].centerLng,
          avgProb |-> sorted[i].avgProb,
          name |-> i, index |-> i - 1, unlockPrice |-> UnlockPrice(i - 1)]]

\* async function loadFarmData()
LoadFarmData ==
  /\ ~questLoaded
  /\ questLoaded' = TRUE
  /\ allFarms' = LoadFarms(questJson)
  /\ zones' = createZones(allFarms')
  /\ UNCHANGED questJson
  /\ UNCHANGED <<mapVars, rescoreVars, voteVars, gameVars, tinderVars>>

InitQuest ==
  /\ questLoaded = FALSE
  /\ allFarms = <<>>
  /\ zones = <<>>

(***************************************************************************)
(* Zone Quest: points, votes and power-ups.  Date.now() is counted in      *)
(* units of 300000 ms (five minutes).  The badges and titles are the sets  *)
(* of their elements, the unlocked lists are the arrays of the code.  A    *)
(* list that a saved state lacks is created empty (unlockedCursors) by     *)
(* every function before it reads it, so it is modelled as the empty list. *)
(* The timestamp of a vote is never read by the code and is left out.      *)
(***************************************************************************)
BASE_POINTS_PER_VOTE == 100
MIN_POINTS_PER_VOTE == 10
MYSTERY_BOX_VOTE_FREQUENCY == 25
DOUBLE_POINTS_PRICE == 500
DOUBLE_POINTS_DURATION == 2    \* 600000 ms
TRIPLE_POINTS_PRICE == 1000
TRIPLE_POINTS_DURATION == 1    \* 300000 ms
MYSTERY_BOX_PRICE == 300
HISTORICAL_MODE_PRICE == 2000

\* array.includes(x)
Includes(list, x) == \E k \in DOMAIN list : list[k] = x

NoFarm == 0   \* currentFarm = null, written as a farm id no farm has

\* activePowerUp: null
NoPowerUp == [type |-> "none", expiresAt |-> 0]

\* let gameState = {...}: nothing stored
NewGameState ==
  [points |-> 0, totalVotes |-> 0, yesVotes |-> 0, noVotes |-> 0,
   votes |-> [id \in {} |-> [vote |-> "yes", points |-> 0]],
   unlockedZones |-> <<0>>,
   unlockedThemes |-> <<"default">>,
   unlockedAvatars |-> <<"farmer">>,
   unlockedCursors |-> <<>>,
   historicalUnlocked |-> FALSE,
   unlockedHistoricalYears |-> <<2024>>,
   unlockedSatelliteProviders |-> <<"esri">>,
   badges |-> {},
   currentTitle |-> "Observer",
   unlockedTitles |-> {"Observer"},
   activePowerUp |-> NoPowerUp,
   mysteryBoxes |-> 0]

\* the farm panel before selectFarm has written it
NoPanel == [farmVotes |-> 0, farmPoints |-> 0]

InitGame ==
  /\ gameState = NewGameState
  /\ globalVotes = [id \in {} |-> 0]
  /\ currentFarm = NoFarm
  /\ farmPanel = NoPanel
  /\ now = 0

\* Math.max
Max(a, b) == IF a > b THEN a ELSE b

\* Natural numbers beyond the range of the checker's integers, as their decimal
\* digits, lowest first, without leading zeros.
\* ds * k + c for a small k > 0
RECURSIVE TimesSmall(_, _, _)
TimesSmall(ds, k, c) ==
  IF ds = <<>>
  THEN (IF c = 0 THEN <<>> ELSE <<c % 10>> \o TimesSmall(<<>>, k, c \div 10))
  ELSE LET v == ds[1] * k + c
       IN  <<v % 10>> \o TimesSmall(Tail(ds), k, v \div 10)

\* b ^ n
RECURSIVE PowDigits(_, _)
PowDigits(b, n) == IF n = 0 THEN <<1>> ELSE TimesSmall(PowDigits(b, n - 1), b, 0)

\* the number a short digit sequence stands for
RECURSIVE Value(_)
Value(ds) == IF ds = <<>> THEN 0 ELSE ds[1] + 10 * Value(Tail(ds))

\* Math.floor(x) for x = ds / 10^n: the digits from 10^n upward
\* (FloorRound: the nearest integer instead)
FloorRound(ds, n) ==
  Value(SubSeq(ds, n + 1, Len(ds))) + (IF n > 0 /\ Len(ds) >= n /\ ds[n] >= 5 THEN 1 ELSE 0)
Floor(ds, n) == Value(SubSeq(ds, n + 1, Len(ds)))

\* Math.max(MIN_POINTS_PER_VOTE, Math.floor(BASE_POINTS_PER_VOTE * Math.pow(0.9, voteCount)))
\* with POINTS_REDUCTION_FACTOR 0.9 = 9 / 10, so that the product is
\* 100 * 9^voteCount / 10^voteCount.  The double the code computes differs from
\* this number by less than 1e-12, which changes the floor only where the number
\* is that close to an integer.
calculatePoints(voteCount) ==
  Max(MIN_POINTS_PER_VOTE,
      Floor(TimesSmall(PowDigits(9, voteCount), BASE_POINTS_PER_VOTE, 0), voteCount))

\* getGlobalVoteCount(farmId): localStorage 'globalVotes_<farmId>', 0 when absent
getGlobalVoteCount(gv, farmId) == IF farmId \in DOMAIN gv THEN gv[farmId] ELSE 0

\* incrementGlobalVoteCount(farmId)
incrementGlobalVoteCount(gv, farmId) ==
  [id \in DOMAIN gv \cup {farmId} |->
     IF id = farmId THEN getGlobalVoteCount(gv, farmId) + 1 ELSE gv[id]]

TITLE_DEFINITIONS ==
  { [id |-> "observer", name |-> "Observer", minVotes |-> 0, minPoints |-> 0],
    [id |-> "scout", name |-> "Scout", minVotes |-> 10, minPoints |-> 500],
    [id |-> "investigator", name |-> "Investigator", minVotes |-> 25, minPoints |-> 2000],
    [id |-> "detective", name |-> "Farm Detective", minVotes |-> 50, minPoints |-> 5000],
    [id |-> "expert", name |-> "Satellite Expert", minVotes |-> 100, minPoints |-> 10000],
    [id |-> "master", name |-> "Verification Master", minVotes |-> 250, minPoints |-> 25000],
    [id |-> "legend", name |-> "Legend", minVotes |-> 500, minPoints |-> 50000] }

\* checkTitles(): the titles are listed by rising minVotes, so the last one pushed
\* is the new one with the largest minVotes
checkTitles(gs) ==
  LET new == {t \in TITLE_DEFINITIONS :
                /\ gs.totalVotes >= t.minVotes
                /\ gs.points >= t.minPoints
                /\ t.id \notin gs.unlockedTitles}
  IN  IF new = {} THEN gs
      ELSE [gs EXCEPT
              !.unlockedTitles = @ \cup {t.id : t \in new},
              !.currentTitle =
                 (CHOOSE t \in new : \A u \in new : u.minVotes <= t.minVotes).name]

BADGE_IDS ==
  {"first_vote", "ten_votes", "fifty_votes", "hundred_votes", "thousand_points",
   "five_thousand_points", "zone_explorer", "balanced_voter"}

\* badge.condition() of BADGE_DEFINITIONS
BadgeCondition(id, gs) ==
  CASE id = "first_vote" -> gs.totalVotes >= 1
    [] id = "ten_votes" -> gs.totalVotes >= 10
    [] id = "fifty_votes" -> gs.totalVotes >= 50
    [] id = "hundred_votes" -> gs.totalVotes >= 100
    [] id = "thousand_points" -> gs.points >= 1000
    [] id = "five_thousand_points" -> gs.points >= 5000
    [] id = "zone_explorer" -> Len(gs.unlockedZones) >= 3
    [] id = "balanced_voter" ->
         /\ gs.totalVotes >= 20
         /\ 10 * gs.yesVotes >= 4 * gs.totalVotes
         /\ 10 * gs.yesVotes <= 6 * gs.totalVotes

\* checkBadges()
checkBadges(gs) ==
  [gs EXCEPT !.badges = @ \cup {id \in BADGE_IDS : BadgeCondition(id, gs)}]

\* gameState.activePowerUp && gameState.activePowerUp.expiresAt > Date.now()
PowerUpActive(gs, t) == gs.activePowerUp.type # "none" /\ gs.activePowerUp.expiresAt > t

\* updateActivePowerUpDisplay(): an expired power-up is set to null
updateActivePowerUpDisplay(gs, t) ==
  IF PowerUpActive(gs, t) THEN gs ELSE [gs EXCEPT !.activePowerUp = NoPowerUp]

\* the multiplier vote() applies under an unexpired power-up of this type
Multiplier(type) == IF type = "double_points" THEN 2 ELSE 1

\* vote(voteType) past its two early returns: the game state it leaves, for the
\* farm farmId, the global counts gv and the time t
VoteResult(gs, gv, farmId, voteType, t) ==
  LET base   == calculatePoints(getGlobalVoteCount(gv, farmId))
      points == IF PowerUpActive(gs, t) THEN base * Multiplier(gs.activePowerUp.type)
                ELSE base
      total  == gs.totalVotes + 1
      voted  ==
        [gs EXCEPT
           !.activePowerUp = IF PowerUpActive(gs, t) THEN @ ELSE NoPowerUp,
           !.votes = [id \in DOMAIN gs.votes \cup {farmId} |->
                        IF id = farmId THEN [vote |-> voteType, points |-> points]
                        ELSE gs.votes[id]],
           !.points = @ + points,
           !.totalVotes = total,
           !.yesVotes = IF voteType = "yes" THEN @ + 1 ELSE @,
           !.noVotes = IF voteType = "yes" THEN @ ELSE @ + 1,
           !.mysteryBoxes = IF total % MYSTERY_BOX_VOTE_FREQUENCY = 0 THEN @ + 1 ELSE @]
  IN  updateActivePowerUpDisplay(checkBadges(checkTitles(voted)), t)

\* The data file of a game: one cell of SavedMost + MaxSelect farms.  The player
\* selects the first MaxSelect of them; localStorage holds the game state that 0,
\* 5 or SavedMost earlier votes on the others left.
SavedMost == MIN_ZONE_FARMS

GameFile == BlockFile(SavedMost + MaxSelect, 60, 0)

SavedCounts == {0, 5, SavedMost}

\* what n votes of 'yes' on farms nobody had voted on leave, each worth
\* calculatePoints(0): VoteResult applied n times, written out
SavedGame(n) ==
  IF n = 0 THEN NewGameState
  ELSE checkBadges(checkTitles(
         [NewGameState EXCEPT
            !.votes = [id \in (MaxSelect + 1)..(MaxSelect + n) |->
                         [vote |-> "yes", points |-> calculatePoints(0)]],
            !.points = n * calculatePoints(0),
            !.totalVotes = n,
            !.yesVotes = n,
            !.mysteryBoxes = n \div MYSTERY_BOX_VOTE_FREQUENCY]))

SavedGlobalVotes(n) == [id \in (MaxSelect + 1)..(MaxSelect + n) |-> 1]

\* selectFarm(farm): the farm with this id becomes the current one and the panel
\* shows its global vote count (gv) and the points a vote earns
selectFarm(farmId, gv) ==
  /\ currentFarm' = farmId
  /\ farmPanel' = [farmVotes |-> getGlobalVoteCount(gv, farmId),
                   farmPoints |-> calculatePoints(getGlobalVoteCount(gv, farmId))]

\* selectFarm(farm), from the marker of the i-th farm of the first zone, which is
\* unlocked from the start
SelectFarm(i) ==
  /\ questLoaded
  /\ zones # <<>>
  /\ Includes(gameState.unlockedZones, 0)
  /\ i \in DOMAIN zones[1].farms
  /\ selectFarm(zones[1].farms[i].id, globalVotes)
  /\ UNCHANGED <<gameState, globalVotes, now>>
  /\ UNCHANGED <<mapVars, questVars, rescoreVars, voteVars, tinderVars>>

\* closeFarmPanel()
CloseFarmPanel ==
  /\ currentFarm' = NoFarm
  /\ UNCHANGED <<gameState, globalVotes, farmPanel, now>>
  /\ UNCHANGED <<mapVars, questVars, rescoreVars, voteVars, tinderVars>>

\* (VoteQuestAgain: a vote() without the test for an earlier vote)
VoteQuestAgain(voteType) ==
  /\ getGlobalVoteCount(globalVotes, currentFarm) < MaxGlobalVotes
  /\ IF currentFarm = NoFarm
     THEN UNCHANGED <<gameState, globalVotes, currentFarm, farmPanel>>
     ELSE /\ gameState' = VoteResult(gameState, globalVotes, currentFarm, voteType, now)
          /\ globalVotes' = incrementGlobalVoteCount(globalVotes, currentFarm)
          /\ selectFarm(currentFarm, globalVotes')
  /\ UNCHANGED now
  /\ UNCHANGED <<mapVars, questVars, rescoreVars, voteVars, tinderVars>>

\* vote(voteType)
VoteQuest(voteType) ==
  /\ getGlobalVoteCount(globalVotes, currentFarm) < MaxGlobalVotes
  /\ IF currentFarm = NoFarm \/ currentFarm \in DOMAIN gameState.votes
     THEN UNCHANGED <<gameState, globalVotes, currentFarm, farmPanel>>
     ELSE /\ gameState' = VoteResult(gameState, globalVotes, currentFarm, voteType, now)
          /\ globalVotes' = incrementGlobalVoteCount(globalVotes, currentFarm)
          /\ selectFarm(currentFarm, globalVotes')
  /\ UNCHANGED now
  /\ UNCHANGED <<mapVars, questVars, rescoreVars, voteVars, tinderVars>>

\* changeVote() past its early return: the game state it leaves, for the farm
\* farmId and the time t (updateUI ends with updateActivePowerUpDisplay)
\* (ChangeResultKeepsCount: the counters are left as they are;
\*  ChangeResultKeepsPoints: the points are left as they are)
ChangeResultKeepsCount(gs, farmId, t) ==
  LET oldVote == gs.votes[farmId]
      removed ==
        [gs EXCEPT
           !.votes = [id \in DOMAIN gs.votes \ {farmId} |-> gs.votes[id]],
           !.points = @ - oldVote.points]
  IN  updateActivePowerUpDisplay(removed, t)
ChangeResultKeepsPoints(gs, farmId, t) ==
  LET oldVote == gs.votes[farmId]
      removed ==
        [gs EXCEPT
           !.votes = [id \in DOMAIN gs.votes \ {farmId} |-> gs.votes[id]],
           !.totalVotes = @ - 1,
           !.yesVotes = IF oldVote.vote = "yes" THEN @ - 1 ELSE @,
           !.noVotes = IF oldVote.vote = "yes" THEN @ ELSE @ - 1]
  IN  updateActivePowerUpDisplay(removed, t)
ChangeResult(gs, farmId, t) ==
  LET oldVote == gs.votes[farmId]
      removed ==
        [gs EXCEPT
           !.votes = [id \in DOMAIN gs.votes \ {farmId} |-> gs.votes[id]],
           !.points = @ - oldVote.points,
           !.totalVotes = @ - 1,
           !.yesVotes = IF oldVote.vote = "yes" THEN @ - 1 ELSE @,
           !.noVotes = IF oldVote.vote = "yes" THEN @ ELSE @ - 1]
  IN  updateActivePowerUpDisplay(removed, t)

\* changeVote()
ChangeVote ==
  /\ IF currentFarm = NoFarm \/ currentFarm \notin DOMAIN gameState.votes
     THEN UNCHANGED <<gameState, currentFarm, farmPanel>>
     ELSE /\ gameState' = ChangeResult(gameState, currentFarm, now)
          /\ selectFarm(currentFarm, globalVotes)
  /\ UNCHANGED <<globalVotes, now>>
  /\ UNCHANGED <<mapVars, questVars, rescoreVars, voteVars, tinderVars>>

POWERUP_DEFINITIONS ==
  { [id |-> "double_points", price |-> DOUBLE_POINTS_PRICE, duration |-> DOUBLE_POINTS_DURATION],
    [id |-> "triple_points", price |-> TRIPLE_POINTS_PRICE, duration |-> TRIPLE_POINTS_DURATION],
    [id |-> "mystery_reveal", price |-> MYSTERY_BOX_PRICE, duration |-> 0] }

\* activatePowerUp(powerUpId), from one of the three buttons of the shop
ActivatePowerUp(powerUpId) ==
  /\ \E powerUp \in POWERUP_DEFINITIONS :
       /\ powerUp.id = powerUpId
       /\ IF gameState.points < powerUp.price
          THEN UNCHANGED gameState
          ELSE LET paid == [gameState EXCEPT !.points = @ - powerUp.price]
                   got  == IF powerUpId = "mystery_reveal"
                           THEN [paid EXCEPT !.mysteryBoxes = @ + 1]
                           ELSE [paid EXCEPT
                                   !.activePowerUp =
                                      [type |-> powerUpId,
                                       expiresAt |-> now + powerUp.duration]]
               IN  gameState' = updateActivePowerUpDisplay(got, now)
  /\ UNCHANGED <<globalVotes, currentFarm, farmPanel, now>>
  /\ UNCHANGED <<mapVars, questVars, rescoreVars, voteVars, tinderVars>>

(***************************************************************************)
(* Zone Quest: the shop and the mystery boxes.                             *)
(***************************************************************************)
\* the themes and cursors of openShop(), the avatars of openMysteryBox()
SHOP_THEMES ==
  { [id |-> "ocean", price |-> 200], [id |-> "sunset", price |-> 300],
    [id |-> "midnight", price |-> 300] }
SHOP_CURSORS ==
  { [id |-> "pointer", price |-> 150], [id |-> "crosshair", price |-> 150],
    [id |-> "hand", price |-> 200], [id |-> "sparkle", price |-> 250] }
BOX_AVATARS == {"detective", "scientist", "explorer", "robot", "astronaut"}

\* SATELLITE_PROVIDERS[providerId].price for the providers the player asks for;
\* "unknown" is an id the table does not have
SATELLITE_PROVIDERS ==
  [providerId \in {"esri", "osm"} |->
     [price |-> IF providerId = "osm" THEN 200 ELSE 0]]
ProviderIds == DOMAIN SATELLITE_PROVIDERS \cup {"unknown"}

\* what the player asks for in the shop: two of the themes, one of the cursors,
\* the current year and one of the years of renderHistoricalShop()
AskedThemes == { t \in SHOP_THEMES : t.id \in {"ocean", "sunset"} }
AskedCursors == { c \in SHOP_CURSORS : c.id = "pointer" }
AskedYears == {2024, 2020}

\* the price of a historical year
YearPrice(year) ==
  LET yearDiff == 2024 - year
  IN  IF yearDiff <= 4 THEN 200
      ELSE IF yearDiff <= 9 THEN 300
      ELSE IF yearDiff <= 14 THEN 400
      ELSE IF yearDiff <= 19 THEN 500
      ELSE IF yearDiff <= 24 THEN 700
      ELSE IF yearDiff <= 29 THEN 900
      ELSE IF yearDiff <= 34 THEN 1100
      ELSE IF yearDiff <= 39 THEN 1300
      ELSE 1500

\* what the shop leaves alone
ShopUnchanged ==
  /\ UNCHANGED <<globalVotes, currentFarm, farmPanel, now>>
  /\ UNCHANGED <<mapVars, questVars, rescoreVars, voteVars, tinderVars>>

\* unlockZone(zoneIndex), from the button of a zone of the shop
UnlockZone(zoneIndex) ==
  /\ zoneIndex + 1 \in DOMAIN zones
  /\ LET zone == zones[zoneIndex + 1]
     IN  IF \/ Includes(gameState.unlockedZones, zoneIndex)
            \/ gameState.points < zone.unlockPrice
         THEN UNCHANGED gameState
         ELSE gameState' =
                updateActivePowerUpDisplay(
                  [gameState EXCEPT !.points = @ - zone.unlockPrice,
                                    !.unlockedZones = Append(@, zoneIndex)], now)
  /\ ShopUnchanged

\* (UnlockThemeAgain: an unlockTheme without the test for an unlocked theme)
UnlockThemeAgain(themeId, price) ==
  /\ IF gameState.points < price
     THEN UNCHANGED gameState
     ELSE gameState' =
            updateActivePowerUpDisplay(
              [gameState EXCEPT !.points = @ - price,
                                !.unlockedThemes = Append(@, themeId)], now)
  /\ ShopUnchanged

\* unlockTheme(themeId, price)
UnlockTheme(themeId, price) ==
  /\ IF \/ Includes(gameState.unlockedThemes, themeId)
        \/ gameState.points < price
     THEN UNCHANGED gameState
     ELSE gameState' =
            updateActivePowerUpDisplay(
              [gameState EXCEPT !.points = @ - price,
                                !.unlockedThemes = Append(@, themeId)], now)
  /\ ShopUnchanged

\* unlockCursor(cursorId, price)
UnlockCursor(cursorId, price) ==
  /\ IF \/ Includes(gameState.unlockedCursors, cursorId)
        \/ gameState.points < price
     THEN UNCHANGED gameState
     ELSE gameState' =
            updateActivePowerUpDisplay(
              [gameState EXCEPT !.points = @ - price,
                                !.unlockedCursors = Append(@, cursorId)], now)
  /\ ShopUnchanged

\* unlockHistoricalMode(): the mode starts with the current year alone
UnlockHistoricalMode ==
  /\ IF \/ gameState.historicalUnlocked
        \/ gameState.points < HISTORICAL_MODE_PRICE
     THEN UNCHANGED gameState
     ELSE gameState' =
            updateActivePowerUpDisplay(
              [gameState EXCEPT !.points = @ - HISTORICAL_MODE_PRICE,
                                !.historicalUnlocked = TRUE,
                                !.unlockedHistoricalYears = <<2024>>], now)
  /\ ShopUnchanged

\* unlockHistoricalYear(year)
UnlockHistoricalYear(year) ==
  /\ IF \/ Includes(gameState.unlockedHistoricalYears, year)
        \/ gameState.points < YearPrice(year)
     THEN UNCHANGED gameState
     ELSE gameState' =
            updateActivePowerUpDisplay(
              [gameState EXCEPT !.points = @ - YearPrice(year),
                                !.unlockedHistoricalYears = Append(@, year)], now)
  /\ ShopUnchanged

\* unlockSatelliteProvider(providerId)
UnlockSatelliteProvider(providerId) ==
  /\ IF \/ Includes(gameState.unlockedSatelliteProviders, providerId)
        \/ providerId \notin DOMAIN SATELLITE_PROVIDERS
     THEN UNCHANGED gameState
     ELSE LET provider == SATELLITE_PROVIDERS[providerId]
          IN  IF gameState.points < provider.price
              THEN UNCHANGED gameState
              ELSE gameState' =
                     updateActivePowerUpDisplay(
                       [gameState EXCEPT
                          !.points = @ - provider.price,
                          !.unlockedSatelliteProviders = Append(@, providerId)], now)
  /\ ShopUnchanged

\* the locked elements of a list of openMysteryBox()
Locked(ids, list) == { id \in ids : ~Includes(list, id) }

\* openMysteryBox(): the reward and the element drawn among the locked ones are
\* random (value is read for a reward of points, pick for the other kinds)
OpenMysteryBox(type, value, pick) ==
  /\ type \in {"points", "avatar", "theme", "cursor"}
  /\ IF gameState.mysteryBoxes <= 0
     THEN UNCHANGED gameState
     ELSE LET opened == [gameState EXCEPT !.mysteryBoxes = @ - 1]
              themes == { t.id : t \in SHOP_THEMES }
              cursors == { c.id : c \in SHOP_CURSORS }
              got ==
                CASE type = "points" -> [opened EXCEPT !.points = @ + value]
                  [] type = "avatar" ->
                       IF Locked(BOX_AVATARS, opened.unlockedAvatars) # {}
                       THEN [opened EXCEPT !.unlockedAvatars = Append(@, pick)]
                       ELSE [opened EXCEPT !.points = @ + 1000]
                  [] type = "theme" ->
                       IF Locked(themes, opened.unlockedThemes) # {}
                       THEN [opened EXCEPT !.unlockedThemes = Append(@, pick)]
                       ELSE [opened EXCEPT !.points = @ + 500]
                  [] type = "cursor" ->
                       IF Locked(cursors, opened.unlockedCursors) # {}
                       THEN [opened EXCEPT !.unlockedCursors = Append(@, pick)]
                       ELSE [opened EXCEPT !.points = @ + 500]
          IN  /\ type = "points" => value \in {500, 1000, 2000}
              /\ type = "avatar" /\ Locked(BOX_AVATARS, opened.unlockedAvatars) # {}
                   => pick \in Locked(BOX_AVATARS, opened.unlockedAvatars)
              /\ type = "theme" /\ Locked(themes, opened.unlockedThemes) # {}
                   => pick \in Locked(themes, opened.unlockedThemes)
              /\ type = "cursor" /\ Locked(cursors, opened.unlockedCursors) # {}
                   => pick \in Locked(cursors, opened.unlockedCursors)
              /\ gameState' = updateActivePowerUpDisplay(got, now)
  /\ ShopUnchanged

\* setTimeout(updateActivePowerUpDisplay, 1000), re-armed while a power-up runs
PowerUpDisplayTimer ==
  /\ gameState.activePowerUp.type # "none"
  /\ gameState' = updateActivePowerUpDisplay(gameState, now)
  /\ UNCHANGED <<globalVotes, currentFarm, farmPanel, now>>
  /\ UNCHANGED <<mapVars, questVars, rescoreVars, voteVars, tinderVars>>

\* Date.now() advances
ClockTick ==
  /\ now < MaxClock
  /\ now' = now + 1
  /\ UNCHANGED <<gameState, globalVotes, currentFarm, farmPanel>>
  /\ UNCHANGED <<mapVars, questVars, rescoreVars, voteVars, tinderVars>>

(***************************************************************************)
(* Zone Tinder (unnamed/part_003, lines 175-451): the farms of one zone,   *)
(* handed over in localStorage 'tinderZoneData', are shown one at a time   *)
(* and voted on.  Votes and user data are the localStorage entries         *)
(* 'farmVotes' and 'userData' that the map explorer uses.  Of a farm the   *)
(* model keeps the id and the probability (in percent).                    *)
(*                                                                         *)
(* Its zone data: MaxTinderFarms farms or fewer, at least one, each of     *)
(* probability 0.5 or 0.9, in any order (loadZoneData shuffles them).      *)
(***************************************************************************)
TinderFarm(id, p) == [id |-> id, probability |-> p]

\* the arrays shuffleArray can return for the farms 1..n
ShuffledZones(n) ==
  { [i \in 1..n |-> TinderFarm(order[i], ps[order[i]])] :
      order \in { f \in [1..n -> 1..n] : \A a, b \in 1..n : f[a] = f[b] => a = b },
      ps \in [1..n -> {50, 90}] }

NoLastVote == [id |-> 0, totalVotes |-> 0, highConfidenceVotes |-> 0, score |-> 0]

\* the visitor has not opened Zone Tinder
InitTinder ==
  /\ tinderFarms = <<>>
  /\ currentIndex = 0
  /\ voteStatus = 0
  /\ lastVote = NoLastVote

\* showFarm(index) with the stored votes `votes`
showFarm(index, votes) ==
  IF index < 0 \/ index >= Len(tinderFarms)
  THEN UNCHANGED <<currentIndex, voteStatus>>
  ELSE /\ currentIndex' = index
       /\ voteStatus' = IF tinderFarms[index + 1].id \in DOMAIN votes
                        THEN tinderFarms[index + 1].id ELSE 0

\* nextFarm(), prevFarm()
nextFarm(votes) ==
  IF currentIndex < Len(tinderFarms) - 1 THEN showFarm(currentIndex + 1, votes)
  ELSE UNCHANGED <<currentIndex, voteStatus>>

prevFarm(votes) ==
  IF currentIndex > 0 THEN showFarm(currentIndex - 1, votes)
  ELSE UNCHANGED <<currentIndex, voteStatus>>

\* let scoreToRemove = 1; if (farm.probability >= 0.9) scoreToRemove += 2;
\* scoreToRemove += 1
ScoreToRemove(farm) ==
  1 + (IF farm.probability >= STRONG_P THEN 2 ELSE 0) + 1

\* vote(yes) of Zone Tinder
vote(yes) ==
  LET farm == tinderFarms[currentIndex + 1]
      isFirstVote == farm.id \notin DOMAIN farmVotes
      votes == [k \in DOMAIN farmVotes \cup {farm.id} |->
                  IF k = farm.id THEN (IF yes THEN "YES" ELSE "NO") ELSE farmVotes[k]]
      \* if (!userData.totalVotes) { totalVotes = 0; highConfidenceVotes = 0; ... }
      data == IF userData.totalVotes = 0 THEN NewUserData ELSE userData
  IN  /\ farmVotes' = votes
      /\ userData' =
           [totalVotes |-> data.totalVotes + 1,
            highConfidenceVotes |->
              data.highConfidenceVotes + (IF farm.probability >= STRONG_P THEN 1 ELSE 0),
            firstTimeVotes |-> data.firstTimeVotes + (IF isFirstVote THEN 1 ELSE 0),
            score |-> data.score + 1 + (IF farm.probability >= STRONG_P THEN 2 ELSE 0)
                        + (IF isFirstVote THEN 1 ELSE 0)]
      /\ lastVote' = [id |-> farm.id, totalVotes |-> userData.totalVotes,
                      highConfidenceVotes |-> userData.highConfidenceVotes,
                      score |-> userData.score]
      /\ nextFarm(votes)

\* cancelVote(farmId) of Zone Tinder
cancelVote(farmId) ==
  IF farmId \notin DOMAIN farmVotes
  THEN UNCHANGED <<farmVotes, userData, currentIndex, voteStatus, lastVote>>
  ELSE LET votes == [k \in DOMAIN farmVotes \ {farmId} |-> farmVotes[k]]
           found == {i \in DOMAIN tinderFarms : tinderFarms[i].id = farmId}
           farm  == tinderFarms[CHOOSE i \in found : \A k \in found : i <= k]
           total == IF userData.totalVotes > 0 THEN userData.totalVotes - 1
                    ELSE userData.totalVotes
       IN  /\ farmVotes' = votes
           /\ userData' =
                IF found = {} THEN [userData EXCEPT !.totalVotes = total]
                ELSE [userData EXCEPT
                        !.totalVotes = total,
                        !.highConfidenceVotes =
                           IF farm.probability >= STRONG_P /\ @ > 0 THEN @ - 1 ELSE @,
                        !.score = Max(0, @ - ScoreToRemove(farm))]
           /\ lastVote' = NoLastVote
           /\ showFarm(currentIndex, votes)

TinderUnchanged ==
  /\ UNCHANGED <<mapVars, questVars, rescoreVars, gameVars>>
  /\ UNCHANGED <<seedVotes, seedFetch, hasVote, unvotedCounter, tinderFarms>>

\* document.getElementById('nextBtn').onclick, disabled on the last farm
NextBtn ==
  /\ currentIndex # Len(tinderFarms) - 1
  /\ nextFarm(farmVotes)
  /\ UNCHANGED <<farmVotes, userData, lastVote>>
  /\ TinderUnchanged

\* document.getElementById('prevBtn').onclick, disabled on the first farm
PrevBtn ==
  /\ currentIndex # 0
  /\ prevFarm(farmVotes)
  /\ UNCHANGED <<farmVotes, userData, lastVote>>
  /\ TinderUnchanged

\* the run goes on while the counters of userData are within the bound
\* (firstTimeVotes is never lowered by a cancel)
VotesLeft == userData.totalVotes < MaxVotes /\ userData.firstTimeVotes <= MaxVotes

\* voteYes.onclick, voteNo.onclick: the buttons of #votingSection
VoteBtn(yes) ==
  /\ voteStatus = 0
  /\ VotesLeft
  /\ vote(yes)
  /\ TinderUnchanged

\* cancelVoteBtn.onclick = () => cancelVote(farm.id), a button of #voteStatus
CancelVoteBtn ==
  /\ voteStatus # 0
  /\ cancelVote(voteStatus)
  /\ TinderUnchanged

\* document.addEventListener('keydown', ...)
KeyDown(key) ==
  /\ CASE key = "ArrowLeft" -> prevFarm(farmVotes) /\ UNCHANGED <<farmVotes, userData, lastVote>>
       [] key = "ArrowRight" -> nextFarm(farmVotes) /\ UNCHANGED <<farmVotes, userData, lastVote>>
       [] key \in {"y", "Y"} -> VotesLeft /\ vote(TRUE)
       [] key \in {"n", "N"} -> VotesLeft /\ vote(FALSE)
       [] OTHER -> UNCHANGED <<farmVotes, userData, lastVote, currentIndex, voteStatus>>
  /\ TinderUnchanged

Keys == {"ArrowLeft", "ArrowRight", "y", "Y", "n", "N", "Enter"}

InitMap ==
  /\ loaded = FALSE
  /\ allMarkers = <<>>
  /\ clusterGroup = <<>>
  /\ plainLayer = <<>>
  /\ probabilityMeta = [pct |-> 50, count |-> 0]
  /\ zonesEnabled = FALSE
  /\ farmZones = <<>>
  /\ zoneLayer = <<>>
  /\ panelActive = FALSE
  /\ zonesList = <<>>
  /\ sliderValue = 50
  /\ timers = {}
  /\ filterTimeout = 0
  /\ strong = <<>>
  /\ members = <<>>
  /\ passRan = FALSE
  /\ sinceInput = DebounceTicks
  /\ inBurst = FALSE

\* version 0-1: nothing is in clusterGroup yet
InitRescore ==
  /\ clusterLayers = <<>>
  /\ everDrawn = FALSE

\* version 0-3: let seedVotes = {}; no stored votes, the user data loadUserData
\* creates, and a counter text not yet written

InitVotes ==
  /\ farmVotes = NoVotes
  /\ seedVotes = {}
  /\ seedFetch = "pending"
  /\ hasVote = <<>>
  /\ unvotedCounter = NotWritten
  /\ userData = NewUserData

Init ==
  /\ farmsJson \in DataFiles
  /\ InitMap
  /\ questJson = <<>>
  /\ InitQuest
  /\ InitRescore
  /\ InitVotes
  /\ InitGame
  /\ InitTinder

Next ==
  \/ LoadData
  \/ \E value \in SliderValues : SliderInput(value)
  \/ Tick
  \/ \E t \in timers : TimerFires(t)
  \/ ToggleZones
  \/ MoveEnd
  \/ ClusteringEnd

Spec == Init /\ [][Next]_vars

InitZoneQuest ==
  /\ questJson \in QuestFiles
  /\ InitQuest
  /\ farmsJson = <<>>
  /\ InitMap
  /\ InitRescore
  /\ InitVotes
  /\ InitGame
  /\ InitTinder

NextQuest ==
  \/ LoadFarmData

SpecQuest == InitZoneQuest /\ [][NextQuest]_vars

\* Zone Quest on the data files above and on files of up to MaxZones zones.
InitZoneRows ==
  /\ questJson \in QuestFiles \cup ZoneRowFiles
  /\ InitQuest
  /\ farmsJson = <<>>
  /\ InitMap
  /\ InitRescore
  /\ InitVotes
  /\ InitGame
  /\ InitTinder

SpecZoneRows == InitZoneRows /\ [][NextQuest]_vars

\* Zone Quest on the data files with malformed records.
InitMalformed ==
  /\ questJson \in MalformedFiles
  /\ InitQuest
  /\ farmsJson = <<>>
  /\ InitMap
  /\ InitRescore
  /\ InitVotes
  /\ InitGame
  /\ InitTinder

SpecMalformed == InitMalformed /\ [][NextQuest]_vars

\* The map explorer of version 0-1.
InitVersion01 ==
  /\ farmsJson \in RescoreFiles
  /\ InitMap
  /\ questJson = <<>>
  /\ InitQuest
  /\ InitRescore
  /\ InitVotes
  /\ InitGame
  /\ InitTinder

NextRescore ==
  \/ LoadDataRescore
  \/ \E value \in SliderValues : SliderInput(value)
  \/ Tick
  \/ \E t \in timers : TimerFiresRescore(t)
  \/ ToggleZonesRescore
  \/ MoveEndRescore
  \/ ClusteringEndRescore

SpecRescore == InitVersion01 /\ [][NextRescore]_vars

\* Version 0-1 on the data files of exactly as many farms as a candidate cluster
\* needs (MIN_CLUSTER_MARKERS): whether there is a zone depends on how the library
\* clusters them at the current zoom.
ViewportFiles == { f \in RescoreFiles : Len(f) = MIN_CLUSTER_MARKERS }

InitViewport ==
  /\ farmsJson \in ViewportFiles
  /\ InitMap
  /\ questJson = <<>>
  /\ InitQuest
  /\ InitRescore
  /\ InitVotes
  /\ InitGame
  /\ InitTinder

SpecViewport == InitViewport /\ [][NextRescore]_vars

\* The map explorer of version 0-3 with its votes.
InitVersion03 ==
  /\ farmsJson \in VoteFiles
  /\ InitMap
  /\ questJson = <<>>
  /\ InitQuest
  /\ InitRescore
  /\ farmVotes \in StoredVotes
  /\ seedVotes = {}
  /\ seedFetch = "pending"
  /\ hasVote = <<>>
  /\ unvotedCounter = NotWritten
  /\ userData = NewUserData
  /\ InitGame
  /\ InitTinder

NextVotes ==
  \/ LoadDataVotes
  \/ \E seeds \in SeedFiles : LoadSeedVotes(seeds)
  \/ SeedVotesMissing
  \/ \E id \in 1..MaxVoteMarkers, yes \in BOOLEAN : Vote(id, yes)
  \/ \E id \in 1..MaxVoteMarkers : CancelVote(id)
  \/ \E value \in SliderValues : FilterTimerFires(value)

SpecVotes == InitVersion03 /\ [][NextVotes]_vars

\* Zone Quest played on one zone, with the game state earlier votes left.
InitSavedGame ==
  /\ farmsJson = <<>>
  /\ InitMap
  /\ questJson = GameFile
  /\ InitQuest
  /\ InitRescore
  /\ InitVotes
  /\ \E n \in SavedCounts :
       /\ gameState = SavedGame(n)
       /\ globalVotes = SavedGlobalVotes(n)
  /\ currentFarm = NoFarm
  /\ farmPanel = NoPanel
  /\ InitTinder
  /\ now = 0

\* Zone Quest where the first farm has collected votes before: the player looks
\* at the farms, the panel shows what a vote earns.
InitPoints ==
  /\ farmsJson = <<>>
  /\ InitMap
  /\ questJson = GameFile
  /\ InitQuest
  /\ InitRescore
  /\ InitVotes
  /\ gameState = NewGameState
  /\ globalVotes \in { [id \in {1} |-> n] : n \in 0..MaxVoteCount }
  /\ currentFarm = NoFarm
  /\ farmPanel = NoPanel
  /\ InitTinder
  /\ now = 0

NextPoints ==
  \/ LoadFarmData
  \/ \E i \in 1..MaxSelect : SelectFarm(i)
  \/ CloseFarmPanel

SpecPoints == InitPoints /\ [][NextPoints]_vars

\* Zone Quest one vote short of a mystery box: the game state that
\* MYSTERY_BOX_VOTE_FREQUENCY - 1 earlier votes left, and only votes are cast and
\* taken back.
NearBoxVotes == MYSTERY_BOX_VOTE_FREQUENCY - 1

InitNearBox ==
  /\ farmsJson = <<>>
  /\ InitMap
  /\ questJson = BlockFile(NearBoxVotes + MaxSelect, 60, 0)
  /\ InitQuest
  /\ InitRescore
  /\ InitVotes
  /\ gameState = SavedGame(NearBoxVotes)
  /\ globalVotes = SavedGlobalVotes(NearBoxVotes)
  /\ currentFarm = NoFarm
  /\ farmPanel = NoPanel
  /\ InitTinder
  /\ now = 0

NextBoxes ==
  \/ LoadFarmData
  \/ \E i \in 1..MaxSelect : SelectFarm(i)
  \/ CloseFarmPanel
  \/ \E voteType \in {"yes", "no"} : VoteQuest(voteType)
  \/ ChangeVote

SpecBoxes == InitNearBox /\ [][NextBoxes]_vars

NextGame ==
  \/ LoadFarmData
  \/ \E i \in 1..MaxSelect : SelectFarm(i)
  \/ CloseFarmPanel
  \/ \E voteType \in {"yes", "no"} : VoteQuest(voteType)
  \/ ChangeVote
  \/ \E powerUpId \in {"double_points", "triple_points", "mystery_reveal"} :
       ActivatePowerUp(powerUpId)
  \/ PowerUpDisplayTimer
  \/ ClockTick

SpecGame == InitSavedGame /\ [][NextGame]_vars

\* Zone Quest played from the 500 points of five earlier votes with the 2x
\* power-up: votes are cast and taken back while it runs and after it expired.
InitDoublePoints ==
  /\ farmsJson = <<>>
  /\ InitMap
  /\ questJson = GameFile
  /\ InitQuest
  /\ InitRescore
  /\ InitVotes
  /\ gameState = SavedGame(5)
  /\ globalVotes = SavedGlobalVotes(5)
  /\ currentFarm = NoFarm
  /\ farmPanel = NoPanel
  /\ InitTinder
  /\ now = 0

NextDoublePoints ==
  \/ LoadFarmData
  \/ \E i \in 1..MaxSelect : SelectFarm(i)
  \/ \E voteType \in {"yes", "no"} : VoteQuest(voteType)
  \/ ChangeVote
  \/ ActivatePowerUp("double_points")
  \/ ClockTick

SpecDoublePoints == InitDoublePoints /\ [][NextDoublePoints]_vars

\* Zone Quest with the shop: a data file of two zones, the first of them holding
\* the farms of the earlier votes, and the game state that no vote or
\* MYSTERY_BOX_VOTE_FREQUENCY votes left (2500 points and one mystery box).
ShopVotes == MYSTERY_BOX_VOTE_FREQUENCY

ShopFile == BlockFile(ShopVotes + MaxSelect, 60, MIN_ZONE_FARMS)

InitShop ==
  /\ farmsJson = <<>>
  /\ InitMap
  /\ questJson = ShopFile
  /\ InitQuest
  /\ InitRescore
  /\ InitVotes
  /\ \E n \in {0, ShopVotes} :
       /\ gameState = SavedGame(n)
       /\ globalVotes = SavedGlobalVotes(n)
  /\ currentFarm = NoFarm
  /\ farmPanel = NoPanel
  /\ InitTinder
  /\ now = 0

NextShop ==
  \/ LoadFarmData
  \/ \E zoneIndex \in 0..1 : UnlockZone(zoneIndex)
  \/ \E theme \in AskedThemes : UnlockTheme(theme.id, theme.price)
  \/ \E cursor \in AskedCursors : UnlockCursor(cursor.id, cursor.price)
  \/ UnlockHistoricalMode
  \/ \E year \in AskedYears : UnlockHistoricalYear(year)
  \/ \E providerId \in ProviderIds : UnlockSatelliteProvider(providerId)
  \/ \E type \in {"points", "avatar", "theme", "cursor"},
        value \in {0, 500, 1000, 2000},
        pick \in {"none"} \cup BOX_AVATARS \cup { t.id : t \in SHOP_THEMES }
                   \cup { c.id : c \in SHOP_CURSORS } :
       /\ type = "points" <=> value # 0
       /\ OpenMysteryBox(type, value, pick)

SpecShop == InitShop /\ [][NextShop]_vars

\* Zone Tinder opened on a zone, after loadZoneData(): the shuffled farms, the
\* first of them shown, no vote stored.
InitZoneTinder ==
  /\ farmsJson = <<>>
  /\ InitMap
  /\ questJson = <<>>
  /\ InitQuest
  /\ InitRescore
  /\ InitVotes
  /\ InitGame
  /\ tinderFarms \in UNION { ShuffledZones(n) : n \in 1..MaxTinderFarms }
  /\ currentIndex = 0
  /\ voteStatus = 0
  /\ lastVote = NoLastVote

NextTinder ==
  \/ NextBtn
  \/ PrevBtn
  \/ \E yes \in BOOLEAN : VoteBtn(yes)
  \/ CancelVoteBtn
  \/ \E key \in Keys : KeyDown(key)

SpecTinder == InitZoneTinder /\ [][NextTinder]_vars

\* The two pages side by side on short data files: the map explorer on the files
\* of at most MaxShort farms, Zone Quest on the files of at most one farm.
InitPages ==
  /\ farmsJson \in {f \in FreeFiles : Len(f) <= MaxShort}
  /\ InitMap
  /\ questJson \in {q \in QuestFreeFiles : Len(q) <= 1}
  /\ InitQuest
  /\ InitRescore
  /\ InitVotes
  /\ InitGame
  /\ InitTinder

NextPages ==
  \/ LoadData
  \/ \E value \in SliderValues : SliderInput(value)
  \/ Tick
  \/ \E t \in timers : TimerFires(t)
  \/ ToggleZones
  \/ MoveEnd
  \/ ClusteringEnd
  \/ LoadFarmData

SpecPages == InitPages /\ [][NextPages]_vars

\* The map explorer on the data files of at most one farm, under the scheduling
\* of the browser: the clock advances and a due timer is run.
InitDebounce ==
  /\ Init
  /\ Len(farmsJson) <= 1

SpecDebounce ==
  /\ InitDebounce
  /\ [][Next]_vars
  /\ WF_vars(Tick)
  /\ WF_vars(\E t \in timers : TimerFires(t))

(***************************************************************************)
(* Properties of the map explorer.                                         *)
(***************************************************************************)
InRadiusOfSeed(cluster) ==
  \A k \in DOMAIN cluster :
    distanceKm(allMarkers[cluster[1]].latlng, allMarkers[cluster[k]].latlng) <= RADIUS_KM

\* C1: every member of an emitted cluster is a >= 0.9 marker within RADIUS_KM of
\* the cluster's seed (its first member), and no marker is in two clusters.
C1_RadiusLinkage ==
  /\ \A k \in DOMAIN members :
       /\ Len(members[k]) >= MIN_POINTS
       /\ InRadiusOfSeed(members[k])
       /\ \A i \in Range(members[k]) : allMarkers[i].farmProbability >= STRONG_P
  /\ \A k1, k2 \in DOMAIN members :
       k1 # k2 => Range(members[k1]) \cap Range(members[k2]) = {}

\* a pass emitted a cluster and left out a strong marker that is within the
\* radius of a member of that cluster, but not of its seed
C1_Witness ==
  /\ passRan
  /\ \E k \in DOMAIN members : \E i \in Range(strong) :
       /\ \A c \in DOMAIN members : i \notin Range(members[c])
       /\ \E m \in Range(members[k]) :
            distanceKm(allMarkers[m].latlng, allMarkers[i].latlng) <= RADIUS_KM

\* C2: window.farmZones never holds more than 8 zones and zoneLayer never more
\* than 8 circles.
C2_ZoneCap ==
  /\ Len(farmZones) <= TOP_ZONES
  /\ Len(zoneLayer) <= TOP_ZONES

\* a pass found more than eight clusters and kept eight
C2_Witness ==
  /\ zonesEnabled
  /\ Len(members) > TOP_ZONES
  /\ Len(farmZones) = TOP_ZONES
  /\ Len(zoneLayer) = TOP_ZONES

\* C3: at most one filter timer is pending; the timer's callback runs only when
\* a full debounce delay has passed since the last slider input, applies the
\* value of that last input and leaves no timer pending (one run per burst);
\* and a pending timer does run unless a new input arrives.
C3_Debounce ==
  /\ [](Cardinality(timers) <= 1)
  /\ [][(\E t \in timers : TimerFires(t)) =>
          /\ sinceInput = DebounceTicks
          /\ probabilityMeta'.pct = sliderValue
          /\ timers' = {}]_vars
  /\ (timers # {} /\ sinceInput > 0) ~> (timers = {} \/ sinceInput = 0)

\* the timer of a burst of inputs has run and applied the last value
C3_Witness ==
  /\ inBurst
  /\ timers = {}
  /\ filterTimeout # 0
  /\ probabilityMeta.pct = sliderValue

\* C4 as claimed: the toggleZones click that disables zones cancels the pending
\* filter timer.
C4_DisableCancelsTimer ==
  [][(zonesEnabled /\ ~zonesEnabled' /\ timers # {}) => timers' = {}]_vars

\* C4 as amended: the click that disables zones leaves the pending timer alone
\* and empties zoneLayer and the panel; the timer still runs applyFilter after the
\* disable, and the zone computation it calls takes the disabled branch.
C4_DisableKeepsTimer ==
  /\ [][(zonesEnabled /\ ~zonesEnabled') =>
          /\ timers' = timers
          /\ zoneLayer' = <<>>
          /\ ~panelActive']_vars
  /\ [][(~zonesEnabled /\ \E t \in timers : TimerFires(t)) =>
          /\ clusterGroup' = FilterMarkers(allMarkers, sliderValue)
          /\ ~passRan'
          /\ zoneLayer' = <<>>
          /\ farmZones' = farmZones]_vars

\* zones were shown, are now disabled, and the filter timer is due
C4_Witness ==
  /\ ~zonesEnabled
  /\ farmZones # <<>>
  /\ \E t \in timers : t.left = 0

\* C5: while zonesEnabled is false, zoneLayer is empty, the zones panel is not
\* active, and the last zone computation did not run a clustering pass.
C5_Gating ==
  ~zonesEnabled => (zoneLayer = <<>> /\ ~panelActive /\ zonesList = <<>> /\ ~passRan)

\* zones had been computed and shown, then disabled, and a filter change came after
C5_Witness ==
  /\ ~zonesEnabled
  /\ loaded
  /\ farmZones # <<>>
  /\ probabilityMeta.pct = 100

\* C6: applyFilter(minP) shows every marker whose probability is exactly minP,
\* and the strong filter of a pass includes every marker at exactly 0.9.
C6_InclusiveThreshold ==
  /\ \A i \in DOMAIN allMarkers :
       allMarkers[i].farmProbability = probabilityMeta.pct =>
         (i \in Range(clusterGroup) /\ i \in Range(plainLayer))
  /\ passRan =>
       \A i \in DOMAIN allMarkers :
         allMarkers[i].farmProbability = STRONG_P => i \in Range(strong)

\* a marker at exactly the applied threshold and a zone of markers at exactly 0.9
C6_Witness ==
  /\ passRan
  /\ farmZones # <<>>
  /\ \E i \in DOMAIN allMarkers : allMarkers[i].farmProbability = probabilityMeta.pct
  /\ \E i \in Range(strong) : allMarkers[i].farmProbability = STRONG_P

Thresholds == {0, 50, 60, 90, 91, 100}

\* s lists, in the order of allMarkers, exactly the markers at or above t
ShownAt(t) == FilterMarkers(allMarkers, t)

\* C8: for thresholds t1 < t2 the markers applyFilter(t2) adds are among those
\* applyFilter(t1) adds, and the adds are in allMarkers order.
C8_FilterMonotone ==
  /\ Increasing(clusterGroup)
  /\ plainLayer = clusterGroup
  /\ \A t \in Thresholds :
       /\ Increasing(ShownAt(t))
       /\ t >= probabilityMeta.pct => Range(ShownAt(t)) \subseteq Range(clusterGroup)
       /\ t <= probabilityMeta.pct => Range(clusterGroup) \subseteq Range(ShownAt(t))
  /\ \A t1, t2 \in Thresholds :
       t1 < t2 => Range(ShownAt(t2)) \subseteq Range(ShownAt(t1))

\* the applied filter hides some markers and shows several, and a higher threshold
\* would hide them too
C8_Witness ==
  /\ loaded
  /\ probabilityMeta.pct = 60
  /\ Len(clusterGroup) >= 2
  /\ Len(clusterGroup) < Len(allMarkers)
  /\ ShownAt(100) = <<>>

\* C9: zones of equal score are in window.farmZones in the order in which the
\* clusterer found them.
C9_StableRanking ==
  \A i, j \in DOMAIN farmZones :
    (i < j /\ farmZones[i].score = farmZones[j].score) =>
      farmZones[i].obj < farmZones[j].obj

\* two zones tie, and the sort moved a later, larger cluster in front of them
C9_Witness ==
  /\ \E i, j \in DOMAIN farmZones : i < j /\ farmZones[i].score = farmZones[j].score
  /\ \E i, j \in DOMAIN farmZones : i < j /\ farmZones[i].obj > farmZones[j].obj

\* the clusters of the last pass that are not in window.farmZones
LeftOut == {k \in DOMAIN members : \A i \in DOMAIN farmZones : farmZones[i].obj # k}

\* C24: window.farmZones is in non-increasing score order; the list item and the
\* circle of the zone at position i (from 0) show rank i + 1; and after a pass no
\* cluster left out of window.farmZones has more members (a higher score) than a
\* zone in it.
C24_TopK ==
  /\ \A i, j \in DOMAIN farmZones : i < j => farmZones[i].score >= farmZones[j].score
  /\ \A k \in DOMAIN zonesList :
       zonesList[k].rank = k /\ zonesList[k].total = farmZones[k].total
  /\ \A k \in DOMAIN zoneLayer :
       zoneLayer[k].rank = k /\ zoneLayer[k].center = farmZones[k].center
  /\ passRan =>
       \A k \in LeftOut : \A i \in DOMAIN farmZones : Len(members[k]) <= farmZones[i].score

\* more than eight clusters, the kept ones of different scores, the largest one
\* found last and ranked first, and a smaller one left out
C24_Witness ==
  /\ passRan
  /\ Len(zonesList) = TOP_ZONES
  /\ farmZones[1].score > farmZones[TOP_ZONES].score
  /\ farmZones[1].obj = Len(members)
  /\ \E k \in LeftOut : Len(members[k]) < farmZones[1].score

\* the candidates already used when the seed of the k-th cluster is processed:
\* the members of the clusters emitted before, and the seeds before it that
\* collected nobody
UsedBefore(i, k) ==
  \/ \E c \in 1..(k - 1) : i \in Range(members[c])
  \/ /\ i < members[k][1]
     /\ \A c \in DOMAIN members : i \notin Range(members[c])

NearSeed(k, i) ==
  distanceKm(allMarkers[members[k][1]].latlng, allMarkers[i].latlng) <= RADIUS_KM

\* C25: after a pass, every >= 0.9 candidate within RADIUS_KM of a cluster's seed
\* that was not used before the seed was processed is a member of that cluster,
\* and no candidate farther than RADIUS_KM from the seed is a member.
C25_SeedLinkage ==
  passRan =>
    \A k \in DOMAIN members :
      /\ \A i \in Range(strong) :
           (NearSeed(k, i) /\ ~UsedBefore(i, k)) => i \in Range(members[k])
      /\ \A i \in Range(strong) :
           ~NearSeed(k, i) => i \notin Range(members[k])

\* a candidate scanned between the seed and a later member stays out of the
\* cluster: it is within the radius of that member but not of the seed
C25_Witness ==
  /\ passRan
  /\ \E k \in DOMAIN members : \E i \in Range(strong) :
       /\ ~NearSeed(k, i)
       /\ \E m \in Range(members[k]) :
            /\ i < m
            /\ distanceKm(allMarkers[m].latlng, allMarkers[i].latlng) <= RADIUS_KM
       /\ members[k][1] < i

\* the zones a clustering of the current allMarkers gives
ZonesNow == SliceTop(SortZones(ZonesOf(allMarkers, ClustersOf(allMarkers))))

\* C27: whenever zones are enabled, from the end of the click that enabled them
\* on, a clustering pass has run and window.farmZones, the circles and the list
\* are those of a clustering of the current allMarkers, whether the farm data
\* was loaded before or after the click and whether or not a timer is pending.
C27_EnabledIsReady ==
  zonesEnabled =>
    /\ passRan
    /\ farmZones = ZonesNow
    /\ zoneLayer = [k \in DOMAIN ZonesNow |-> Circle(ZonesNow[k], k - 1)]
    /\ zonesList = [k \in DOMAIN ZonesNow |-> ListItem(ZonesNow[k], k - 1)]
    /\ panelActive = (ZonesNow # <<>>)

\* zones are enabled and shown while the slider's timer is still pending
C27_Witness ==
  /\ zonesEnabled
  /\ loaded
  /\ timers # {}
  /\ Len(zoneLayer) = 1
  /\ panelActive

\* C10: a zone computation with zones enabled on unchanged allMarkers yields the
\* window.farmZones the previous computation on these markers yielded, whether
\* the previous contents are those of an enabled state or the list left behind
\* by a disable.
C10_Idempotent ==
  [][(/\ allMarkers' = allMarkers
      /\ zonesEnabled'
      /\ (zonesEnabled \/ farmZones # <<>>)) => farmZones' = farmZones]_vars

\* zones are shown although a later filter change hid every marker
C10_Witness ==
  /\ zonesEnabled
  /\ Len(farmZones) >= 2
  /\ probabilityMeta.pct = 100
  /\ clusterGroup = <<>>

\* marker i is a >= 0.9 candidate
IsCandidate(i) == allMarkers[i].farmProbability >= STRONG_P

\* the >= 0.9 candidates other than i within RADIUS_KM of marker i
NearCandidates(i) ==
  {j \in DOMAIN allMarkers \ {i} :
     /\ IsCandidate(j)
     /\ distanceKm(allMarkers[i].latlng, allMarkers[j].latlng) <= RADIUS_KM}

\* the clusters of the last pass that hold marker i
ClustersWith(i) == {k \in DOMAIN members : i \in Range(members[k])}

\* C11: after a pass, a >= 0.9 candidate with no other >= 0.9 candidate within
\* RADIUS_KM is in no cluster and no zone has fewer than MIN_POINTS (2) members;
\* two >= 0.9 candidates that are within RADIUS_KM of each other and of no other
\* candidate form exactly one cluster, of exactly these two, which is one zone
\* with total = 2 of window.farmZones (when the pass found at most 8 clusters).
C11_IsolatedNoZone ==
  passRan =>
    /\ \A i \in DOMAIN allMarkers :
         (IsCandidate(i) /\ NearCandidates(i) = {}) => ClustersWith(i) = {}
    /\ \A z \in DOMAIN farmZones : farmZones[z].total >= 2
    /\ Len(farmZones) = Min(Len(members), TOP_ZONES)
    /\ \A i, j \in DOMAIN allMarkers :
         (/\ IsCandidate(i)
          /\ NearCandidates(i) = {j}
          /\ NearCandidates(j) = {i}) =>
           /\ ClustersWith(i) = ClustersWith(j)
           /\ Cardinality(ClustersWith(i)) = 1
           /\ \A k \in ClustersWith(i) :
                /\ Range(members[k]) = {i, j}
                /\ Len(members[k]) = 2
                /\ Len(members) <= TOP_ZONES =>
                     /\ Cardinality({z \in DOMAIN farmZones : farmZones[z].obj = k}) = 1
                     /\ \A z \in DOMAIN farmZones :
                          farmZones[z].obj = k => farmZones[z].total = 2

\* a pass over a pair of candidates and a candidate 8.9 km away from them: one zone
C11_Witness ==
  /\ passRan
  /\ Len(farmZones) = 1
  /\ farmZones[1].total = 2
  /\ \E i \in DOMAIN allMarkers : IsCandidate(i) /\ NearCandidates(i) = {}
  /\ \E i, j \in DOMAIN allMarkers :
       IsCandidate(i) /\ NearCandidates(i) = {j} /\ NearCandidates(j) = {i}

\* the number of >= 0.9 candidates among the markers
CandidateCount == Cardinality({i \in DOMAIN allMarkers : IsCandidate(i)})

\* C12: with zones enabled and fewer than 2 candidates at >= 0.9 (none at all
\* included) the zone computation has run to its end and left window.farmZones
\* empty, zoneLayer empty and the panel inactive; createZones on an empty allFarms
\* leaves zones empty, with the load completed.
C12_EmptyIsValid ==
  /\ (zonesEnabled /\ CandidateCount < 2) =>
       /\ passRan
       /\ farmZones = <<>>
       /\ zoneLayer = <<>>
       /\ zonesList = <<>>
       /\ ~panelActive
  /\ (questLoaded /\ allFarms = <<>>) => zones = <<>>

\* zones are enabled over a loaded file with markers but a single candidate, and
\* Zone Quest has loaded a file none of whose farms it keeps
C12_Witness ==
  /\ zonesEnabled
  /\ loaded
  /\ Len(allMarkers) = 2
  /\ CandidateCount = 1
  /\ farmZones = <<>>
  /\ questLoaded
  /\ allFarms = <<>>
  /\ zones = <<>>

\* the layers of clusterLayers that the pass of version 0-1 makes candidates
QualifyingLayers ==
  {k \in DOMAIN clusterLayers :
     /\ Len(clusterLayers[k]) >= 4
     /\ \E m \in Range(clusterLayers[k]) : allMarkers[m].farmProbability >= STRONG_P}

\* C13: while zones are enabled, window.farmZones holds one zone for each cluster
\* that qualifies in the last recompute (at most 8 of them) and nothing else,
\* zoneLayer holds the circles of exactly these zones, and when no cluster
\* qualifies both are empty and the panel lists nothing, whatever earlier runs
\* had produced.
C13_ZonesReplaced ==
  zonesEnabled =>
    /\ passRan
    /\ Len(farmZones) = Min(Cardinality(QualifyingLayers), TOP_ZONES)
    /\ \A z \in DOMAIN farmZones :
         \E k \in QualifyingLayers :
           /\ farmZones[z].total = Len(clusterLayers[k])
           /\ farmZones[z].center.lat = Mean(allMarkers, clusterLayers[k], "lat")
    /\ \A z1, z2 \in DOMAIN farmZones :
         z1 # z2 => farmZones[z1].center # farmZones[z2].center
    /\ Len(zoneLayer) = Len(farmZones)
    /\ \A z \in DOMAIN zoneLayer :
         zoneLayer[z].center = farmZones[z].center /\ zoneLayer[z].rank = z
    /\ Len(zonesList) = Len(farmZones)
    /\ QualifyingLayers = {} =>
         (farmZones = <<>> /\ zoneLayer = <<>> /\ zonesList = <<>> /\ ~panelActive)

\* an earlier run drew a zone, and the last run, with zones enabled, found no
\* qualifying cluster among the layers
C13_Witness ==
  /\ zonesEnabled
  /\ everDrawn
  /\ clusterLayers # <<>>
  /\ QualifyingLayers = {}
  /\ farmZones = <<>>
  /\ zoneLayer = <<>>

\* C16: while zones are enabled, every member of a zone of window.farmZones has
\* a probability at or above the threshold last passed to applyFilter.
C16_EligibilityFollowsFilter ==
  zonesEnabled =>
    \A z \in DOMAIN farmZones :
      \A i \in Range(members[farmZones[z].obj]) :
        allMarkers[i].farmProbability >= probabilityMeta.pct

\* the orders of a list of n markers
Orders(n) == {f \in [1..n -> 1..n] : \A i, j \in 1..n : i # j => f[i] # f[j]}

\* the markers in the order f
Reordered(markers, f) == [i \in DOMAIN markers |-> markers[f[i]]]

\* the clusters `found` over `markers`, each as the set of the farm ids of its members
Memberships(markers, found) ==
  { {markers[i].farmID : i \in Range(found[k])} : k \in DOMAIN found }

\* a candidate is within RADIUS_KM of two candidates that are farther than
\* RADIUS_KM from each other
HasStraddler ==
  \E a, b, c \in DOMAIN allMarkers :
    /\ IsCandidate(a) /\ IsCandidate(b) /\ IsCandidate(c)
    /\ distanceKm(allMarkers[a].latlng, allMarkers[b].latlng) <= RADIUS_KM
    /\ distanceKm(allMarkers[b].latlng, allMarkers[c].latlng) <= RADIUS_KM
    /\ distanceKm(allMarkers[a].latlng, allMarkers[c].latlng) > RADIUS_KM

\* C18: whenever the list of a pass holds a candidate within RADIUS_KM of two
\* candidates that are not within RADIUS_KM of each other, there is an order of
\* the same list for which the pass yields other cluster memberships.
C18_OrderDependence ==
  (passRan /\ HasStraddler) =>
    \E f \in Orders(Len(allMarkers)) :
      LET other == Reordered(allMarkers, f)
      IN  Memberships(other, ClustersOf(other)) # Memberships(allMarkers, members)

\* three candidates in a row 4.4 km apart, listed from one end: the middle one
\* joined the first, the third is in no cluster
C18_Witness ==
  /\ passRan
  /\ HasStraddler
  /\ CandidateCount = 3
  /\ Len(members) = 1
  /\ Len(members[1]) = 2

\* the markers that need review: probability >= 0.8, no vote of the user in
\* farmVotes and no seed vote
NeedsReview ==
  {i \in DOMAIN allMarkers :
     /\ allMarkers[i].farmProbability >= 80
     /\ allMarkers[i].farmID \notin DOMAIN farmVotes
     /\ allMarkers[i].farmID \notin seedVotes}

\* C19: once the farms or the seed votes are loaded the 'Needs review' number is
\* written, and whenever it is written it is the number of markers that need
\* review.
C19_NeedsReviewCount ==
  /\ (loaded \/ seedFetch = "done") => unvotedCounter # NotWritten
  /\ unvotedCounter # NotWritten => unvotedCounter = Cardinality(NeedsReview)

\* two markers at >= 0.8, one of them with a seed vote only, the other with its
\* vote cancelled, after a filter change
C19_Witness ==
  /\ loaded
  /\ Len(allMarkers) = 2
  /\ seedVotes = {1}
  /\ farmVotes = NoVotes
  /\ userData.totalVotes > 0
  /\ probabilityMeta.pct = 100
  /\ unvotedCounter = 1

(***************************************************************************)
(* Properties of Zone Quest.                                               *)
(***************************************************************************)
\* C7: a farm whose farm_probability is exactly MIN_FARM_PROBABILITY is kept in
\* allFarms by loadFarmData, and createZones counts it: when its grid cell holds
\* MIN_ZONE_FARMS farms at or above the minimum, the cell is a zone with the farm
\* in it.
C7_InclusiveAtLoad ==
  questLoaded =>
    \A i \in DOMAIN questJson :
      questJson[i].farm_probability = MIN_FARM_PROBABILITY =>
        /\ \E k \in DOMAIN allFarms : allFarms[k] = QuestRecord(questJson[i])
        /\ LET key  == CellKey(QuestRecord(questJson[i]))
               cell == SelectSeq(questJson,
                         LAMBDA f : /\ CellKey(QuestRecord(f)) = key
                                    /\ f.farm_probability >= MIN_FARM_PROBABILITY)
           IN  Len(cell) >= MIN_ZONE_FARMS =>
                 \E z \in DOMAIN zones :
                   /\ zones[z].id = key
                   /\ QuestRecord(questJson[i]) \in Range(zones[z].farms)

\* the farms of allFarms in the grid cell of farm f
CellMates(f) == SelectSeq(allFarms, LAMBDA g : CellKey(g) = CellKey(f))

\* the zones made of the grid cell of farm f
ZonesOfCell(f) == {z \in DOMAIN zones : zones[z].id = CellKey(f)}

\* C14: after the load, a grid cell that holds 9 farms of allFarms is no zone; a
\* cell that holds 10 is exactly one zone, made of these 10 farms, whose centerLat
\* and centerLng are a tenth of the sums of their lat and lng (centres are in
\* 1e-5 degree, coordinates in 1e-2 degree).
C14_MinimumSize ==
  questLoaded =>
    \A k \in DOMAIN allFarms :
      LET f  == allFarms[k]
          fs == CellMates(f)
      IN  /\ Len(fs) = 9 => ZonesOfCell(f) = {}
          /\ Len(fs) = 10 =>
               /\ Cardinality(ZonesOfCell(f)) = 1
               /\ \A z \in ZonesOfCell(f) :
                    /\ zones[z].farms = fs
                    /\ 10 * zones[z].centerLat =
                         1000 * SumSeq([j \in DOMAIN fs |-> fs[j].lat])
                    /\ 10 * zones[z].centerLng =
                         1000 * SumSeq([j \in DOMAIN fs |-> fs[j].lng])

\* a cell of 9 farms beside a cell of 10 farms, and one zone
C14_Witness ==
  /\ questLoaded
  /\ Len(zones) = 1
  /\ \E k \in DOMAIN allFarms : Len(CellMates(allFarms[k])) = 9
  /\ \E k \in DOMAIN allFarms :
       Len(CellMates(allFarms[k])) = 10 /\ ZonesOfCell(allFarms[k]) # {}

\* C15: after the load, the zones are in non-increasing order of farm count, and
\* the zone at (0-based) position i has index i and the name 'Zone ' + (i + 1).
C15_OrderAndNames ==
  questLoaded =>
    \A i \in DOMAIN zones :
      /\ zones[i].index = i - 1
      /\ zones[i].name = zones[i].index + 1
      /\ i < Len(zones) => Len(zones[i].farms) >= Len(zones[i + 1].farms)

\* the cell found second holds more farms and is Zone 1
C15_Witness ==
  /\ questLoaded
  /\ Len(zones) = 2
  /\ Len(zones[1].farms) > Len(zones[2].farms)
  /\ zones[1].farms[1].id > zones[2].farms[1].id
  /\ zones[1].name = 1

\* the record has its latitude, its longitude and its probability
IsWellFormed(f) ==
  /\ f.Latitude # Undefined
  /\ f.Longitude # Undefined
  /\ f.farm_probability # Undefined

\* C17: after the load of a file with records that lack latitude, longitude or
\* probability, no such record is a farm of a zone, and the zones are those the
\* load makes of the file without these records.
C17_MalformedIsLocal ==
  questLoaded =>
    /\ \A z \in DOMAIN zones : \A k \in DOMAIN zones[z].farms :
         /\ zones[z].farms[k].lat # Undefined
         /\ zones[z].farms[k].lng # Undefined
         /\ zones[z].farms[k].probability # Undefined
    /\ zones = createZones(LoadFarms(SelectSeq(questJson, IsWellFormed)))

\* a step of vote(voteType) that recorded a vote for the selected farm
VoteCast ==
  /\ currentFarm # NoFarm
  /\ currentFarm \notin DOMAIN gameState.votes
  /\ currentFarm \in DOMAIN gameState'.votes

\* what the vote should earn: calculatePoints(voteCount), doubled or tripled under
\* an unexpired double_points or triple_points
PointsDue ==
  calculatePoints(getGlobalVoteCount(globalVotes, currentFarm))
    * (IF gameState.activePowerUp.expiresAt > now
       THEN (CASE gameState.activePowerUp.type = "double_points" -> 2
               [] gameState.activePowerUp.type = "triple_points" -> 3
               [] OTHER -> 1)
       ELSE 1)

\* C20: a vote cast while a power-up is unexpired earns calculatePoints(voteCount)
\* times 2 for double_points and times 3 for triple_points; a vote cast after
\* expiry, or without a power-up, earns calculatePoints(voteCount).
C20_PowerUpMultipliers ==
  [][VoteCast =>
       /\ gameState'.votes[currentFarm].points = PointsDue
       /\ gameState'.points = gameState.points + PointsDue]_vars

\* a <= b for two numbers given by their digits
DigitsLeq(a, b) ==
  \/ Len(a) < Len(b)
  \/ /\ Len(a) = Len(b)
     /\ \/ a = b
        \/ \E i \in DOMAIN a : a[i] < b[i] /\ \A j \in (i + 1)..Len(a) : a[j] = b[j]

\* p <= 100 * 0.9^n, as p * 10^n <= 100 * 9^n
AtMostScaled(p, n) ==
  DigitsLeq(TimesSmall(PowDigits(10, n), p, 0), TimesSmall(PowDigits(9, n), 100, 0))

\* r = max(10, floor(100 * 0.9^n)): r >= 10, 100 * 0.9^n < r + 1, and r <= 100 * 0.9^n
\* unless r is the minimum
IsMaxOfFloor(r, n) ==
  /\ r >= 10
  /\ ~AtMostScaled(r + 1, n)
  /\ r > 10 => AtMostScaled(r, n)

\* the first three decimals of 100 * 0.9^n, for n >= 3
Thousandths(n) == Value(SubSeq(TimesSmall(PowDigits(9, n), 100, 0), n - 2, n))

\* C21: the points the farm panel shows for a farm with voteCount earlier votes are
\* max(10, floor(100 * 0.9^voteCount)): 100 for voteCount = 0, between 10 and 100,
\* and one more vote never raises them.  (Last conjunct: where the floor decides,
\* 100 * 0.9^voteCount is not within a thousandth of an integer, so the rounding of
\* the double cannot change it.)
C21_DiminishingReturns ==
  farmPanel # NoPanel =>
    LET n == farmPanel.farmVotes
        r == farmPanel.farmPoints
    IN  /\ IsMaxOfFloor(r, n)
        /\ n = 0 => r = 100
        /\ r >= 10 /\ r <= 100
        /\ calculatePoints(n + 1) <= r
        /\ (n >= 3 /\ r > 10) => Thousandths(n) \in 1..998

\* the panel of a farm with 22 earlier votes shows the minimum, that of a farm with
\* 21 votes shows 10 as the floor of 10.94...
C21_Witness ==
  /\ farmPanel.farmVotes \in {21, 22}
  /\ farmPanel.farmPoints = 10
  /\ currentFarm = 1

\* C22: where boxes come from votes only, a vote that awards a mystery box leaves
\* as many boxes as there are multiples of 25 up to the vote count it reached: the
\* milestone it reached had not awarded a box before.
C22_OneBoxPerMilestone ==
  [][gameState'.mysteryBoxes > gameState.mysteryBoxes =>
       gameState'.mysteryBoxes = gameState'.totalVotes \div MYSTERY_BOX_VOTE_FREQUENCY]_vars

\* C23: after createZones the first zone costs 0 and is unlocked in the initial
\* game state; the zone at index i >= 1 costs 1000 + 500 * (i - 1).
C23_LinearPricing ==
  questLoaded =>
    /\ \A k \in DOMAIN zones :
         /\ zones[k].index = k - 1
         /\ zones[k].unlockPrice =
              (IF zones[k].index = 0 THEN 0 ELSE 1000 + 500 * (zones[k].index - 1))
    /\ zones # <<>> => Includes(gameState.unlockedZones, 0)

\* four zones: Zone 2 at 1000, Zone 3 at 1500, Zone 4 at 2000
C23_Witness ==
  /\ questLoaded
  /\ Len(zones) = 3
  /\ zones[1].unlockPrice = 0
  /\ zones[2].unlockPrice = 1000
  /\ zones[3].unlockPrice = 1500

\* g = floor(x / 0.5), with x in hundredths of a degree
IsFloorCell(g, x) == 50 * g <= x /\ x < 50 * g + 50

\* the farm lies in the cell with this key
InCell(f, key) == IsFloorCell(key[1], f.lng) /\ IsFloorCell(key[2], f.lat)

\* x and y have the same floor(. / 0.5): no multiple of 0.5 lies above the smaller
\* and not above the larger
SameFloor(x, y) ==
  \A b \in (Min(x, y) + 1)..(IF x < y THEN y ELSE x) : b % 50 # 0

\* the farms of allFarms in the cell of f
SameCell(f) ==
  {a \in DOMAIN allFarms :
     SameFloor(f.lng, allFarms[a].lng) /\ SameFloor(f.lat, allFarms[a].lat)}

\* the places where the farm occurs in the zones
Places(f) == {p \in (DOMAIN zones) \X (DOMAIN allFarms) :
                p[2] \in DOMAIN zones[p[1]].farms /\ zones[p[1]].farms[p[2]] = f}

\* C26: after createZones every farm of a zone lies in the cell
\* (floor(lng / 0.5), floor(lat / 0.5)) that is the zone's key, also at negative
\* coordinates; no two zones have the same key; and a farm of allFarms occurs in
\* the zones once if its cell holds MIN_ZONE_FARMS farms, else not at all.
C26_GridPartition ==
  questLoaded =>
    /\ \A k \in DOMAIN zones : \A j \in DOMAIN zones[k].farms :
         InCell(zones[k].farms[j], zones[k].id)
    /\ \A k1, k2 \in DOMAIN zones : zones[k1].id = zones[k2].id => k1 = k2
    /\ \A a \in DOMAIN allFarms :
         Cardinality(Places(allFarms[a])) =
           (IF Cardinality(SameCell(allFarms[a])) >= 10 THEN 1 ELSE 0)

\* south of the equator a zone holds nine farms of one row and the first farm of
\* the next row, 0.5 degrees away
C26_Witness ==
  /\ questLoaded
  /\ \E k \in DOMAIN zones :
       /\ zones[k].id[1] < 0 /\ zones[k].id[2] < 0
       /\ \E i, j \in DOMAIN zones[k].farms :
            zones[k].farms[i].lat - zones[k].farms[j].lat >= 49
  /\ \E a \in DOMAIN allFarms : Places(allFarms[a]) = {}

(***************************************************************************)
(* Viewport events (version 0-1, where the zones depend on the layers the  *)
(* library shows and a recompute is therefore visible in the state).       *)
(***************************************************************************)
\* a step of the moveend / zoomend handler with zones enabled that changed the
\* layers: no timer is set or fired in it and the data is already loaded
ViewportStep ==
  /\ zonesEnabled /\ zonesEnabled'
  /\ loaded /\ loaded'
  /\ timers' = timers
  /\ clusterLayers' # clusterLayers

\* the zones of a rescoring pass over the current layers
RescoredNow ==
  LET cand == CandidateLayers(allMarkers, clusterLayers, 1)
  IN  SliceTop(SortZones([k \in DOMAIN cand |->
                            RescoredZone(allMarkers, clusterLayers[cand[k]], k)]))

\* C28 (as stated): viewport changes are debounced like filter changes, so the
\* handler of a moveend / zoomend event does not recompute in its own turn: the
\* zones on display stay as they were until a quiet period has passed.
C28_ViewportDebounced ==
  [][ViewportStep => UNCHANGED <<farmZones, zoneLayer, zonesList>>]_vars

\* C28 (amended): viewport changes are not debounced.  With zones enabled the
\* handler of every moveend / zoomend event runs the recompute in its own turn,
\* with no timer: after the step the zones are those of the layers now shown.
C28_ViewportRecomputesAtOnce ==
  [][ViewportStep =>
       /\ passRan'
       /\ farmZones' = RescoredNow'
       /\ zoneLayer' = [k \in DOMAIN RescoredNow' |-> RescoredCircle(RescoredNow'[k], k - 1)]
       /\ filterTimeout' = filterTimeout]_vars

\* zones were drawn, the slider was never touched, and with zones enabled the
\* layers now shown give no zone
C28_Witness ==
  /\ zonesEnabled /\ loaded /\ passRan
  /\ filterTimeout = 0 /\ timers = {}
  /\ everDrawn /\ zoneLayer = <<>>

\* C30 (as stated): zone list and overlays agree.  In every reachable state the
\* number of zones in window.farmZones equals the number of circles in zoneLayer,
\* also after zones are disabled.
C30_CountsAgree == Len(farmZones) = Len(zoneLayer)

\* C30 (amended): in every reachable state the items of #zonesList are as many as
\* the circles in zoneLayer; while zones are enabled, so are the zones in
\* window.farmZones; while zones are disabled there is no circle and no item,
\* whatever window.farmZones still holds.
C30_ListAndOverlaysAgree ==
  /\ Len(zonesList) = Len(zoneLayer)
  /\ zonesEnabled => Len(farmZones) = Len(zoneLayer)
  /\ ~zonesEnabled => zoneLayer = <<>>

\* zones are disabled after a run that drew a zone
C30_Witness ==
  /\ ~zonesEnabled /\ loaded
  /\ farmZones # <<>>
  /\ zoneLayer = <<>> /\ zonesList = <<>>

(***************************************************************************)
(* Zone Tinder.                                                            *)
(***************************************************************************)
\* a step that deletes the stored vote of the farm that the last vote() was cast
\* on, no other vote having been cast or cancelled in between
CancelsLastVote ==
  /\ lastVote.id # 0
  /\ lastVote.id \in DOMAIN farmVotes
  /\ lastVote.id \notin DOMAIN farmVotes'

\* C29: cancelVote reverses the vote.  A vote on a farm followed by cancelVote on
\* that farm leaves userData.totalVotes, userData.highConfidenceVotes and
\* userData.score at their values before the vote, also when the farm had been
\* voted on before.
C29_CancelRestores ==
  [][CancelsLastVote =>
       /\ userData'.totalVotes = lastVote.totalVotes
       /\ userData'.highConfidenceVotes = lastVote.highConfidenceVotes
       /\ userData'.score = lastVote.score]_vars

(***************************************************************************)
(* Zone Quest: votes.                                                      *)
(***************************************************************************)
\* C32: the vote counters stay consistent.  After any sequence of vote and
\* changeVote, totalVotes is the number of entries of gameState.votes and is
\* yesVotes + noVotes, and none of the three counters is negative.
C32_CountersConsistent ==
  /\ gameState.totalVotes = Cardinality(DOMAIN gameState.votes)
  /\ gameState.totalVotes = gameState.yesVotes + gameState.noVotes
  /\ gameState.totalVotes >= 0
  /\ gameState.yesVotes >= 0
  /\ gameState.noVotes >= 0

\* votes of both kinds are stored after a vote was changed
C32_Witness ==
  /\ gameState.yesVotes > 0 /\ gameState.noVotes > 0
  /\ \E id \in DOMAIN globalVotes : globalVotes[id] >= 2

\* vote() is refused: no farm is selected, or the selected farm has a vote
VoteRefused == currentFarm = NoFarm \/ currentFarm \in DOMAIN gameState.votes

\* C33: no double voting.  A call of vote() with no current farm, or on a farm
\* that has an entry in gameState.votes, leaves gameState and every global vote
\* count as they are.
C33_NoDoubleVote ==
  [][(VoteRefused /\ \E voteType \in {"yes", "no"} : VoteQuest(voteType))
       => UNCHANGED <<gameState, globalVotes>>]_vars

\* the selected farm has the player's vote, counted once
C33_Witness ==
  /\ currentFarm # NoFarm
  /\ currentFarm \in DOMAIN gameState.votes
  /\ getGlobalVoteCount(globalVotes, currentFarm) = 1
  /\ getGlobalVoteCount(globalVotes, currentFarm) < MaxGlobalVotes

\* C34: vote followed at once by changeVote is a round trip on the score state:
\* points, totalVotes, yesVotes, noVotes and the votes map are what they were
\* before the vote, for every farm that can be voted on and both kinds of vote.
C34_VoteChangeRoundTrip ==
  ~VoteRefused =>
    \A voteType \in {"yes", "no"} :
      LET voted == VoteResult(gameState, globalVotes, currentFarm, voteType, now)
          back  == ChangeResult(voted, currentFarm, now)
      IN  /\ currentFarm \in DOMAIN voted.votes
          /\ back.points = gameState.points
          /\ back.totalVotes = gameState.totalVotes
          /\ back.yesVotes = gameState.yesVotes
          /\ back.noVotes = gameState.noVotes
          /\ back.votes = gameState.votes

\* a farm whose vote was taken back is selected, under a running power-up
C34_Witness ==
  /\ ~VoteRefused
  /\ getGlobalVoteCount(globalVotes, currentFarm) >= 1
  /\ PowerUpActive(gameState, now)

(***************************************************************************)
(* The two fetches of version 0-3.                                         *)
(***************************************************************************)
\* C36: the farm data and the seed votes load in either order.  Once both
\* fetches have completed, every marker has hasVote = true exactly when its
\* farm has a vote of the user or a seed vote.
C36_EitherOrder ==
  (loaded /\ seedFetch = "done") =>
    /\ DOMAIN hasVote = DOMAIN allMarkers
    /\ \A i \in DOMAIN allMarkers :
         hasVote[i] = (\/ allMarkers[i].farmID \in DOMAIN farmVotes
                       \/ allMarkers[i].farmID \in seedVotes)

\* both fetches are done and nothing else has happened: of two markers the one
\* with the seed vote has hasVote, the other has not
C36_Witness ==
  /\ loaded
  /\ seedFetch = "done"
  /\ Len(allMarkers) = 2
  /\ seedVotes = {1}
  /\ farmVotes = NoVotes
  /\ userData.totalVotes = 0
  /\ probabilityMeta.pct = 50
  /\ hasVote = <<TRUE, FALSE>>

(***************************************************************************)
(* Zone Quest: points and purchases.                                       *)
(***************************************************************************)
\* C31: the points are never negative, after any sequence of votes, changed
\* votes, purchases, power-ups and mystery boxes.
C31_PointsNeverNegative == gameState.points >= 0

\* no element occurs twice in the list
NoDuplicates(list) ==
  \A i \in DOMAIN list : \A j \in DOMAIN list : list[i] = list[j] => i = j

NoDuplicateUnlocks ==
  /\ NoDuplicates(gameState.unlockedZones)
  /\ NoDuplicates(gameState.unlockedThemes)
  /\ NoDuplicates(gameState.unlockedCursors)
  /\ NoDuplicates(gameState.unlockedAvatars)
  /\ NoDuplicates(gameState.unlockedHistoricalYears)
  /\ NoDuplicates(gameState.unlockedSatelliteProviders)

\* a purchase of an item at a price: refused with the game state unchanged when
\* the item is owned or the points are below the price, and otherwise the price
\* is deducted and the item is added
Guarded(owned, price, added) ==
  IF owned \/ gameState.points < price
  THEN UNCHANGED gameState
  ELSE /\ gameState'.points = gameState.points - price
       /\ added

GuardedPurchases ==
  /\ \A zoneIndex \in 0..1 :
       UnlockZone(zoneIndex) =>
         Guarded(Includes(gameState.unlockedZones, zoneIndex),
                 zones[zoneIndex + 1].unlockPrice,
                 gameState'.unlockedZones = Append(gameState.unlockedZones, zoneIndex))
  /\ \A theme \in AskedThemes :
       UnlockTheme(theme.id, theme.price) =>
         Guarded(Includes(gameState.unlockedThemes, theme.id), theme.price,
                 gameState'.unlockedThemes = Append(gameState.unlockedThemes, theme.id))
  /\ \A cursor \in AskedCursors :
       UnlockCursor(cursor.id, cursor.price) =>
         Guarded(Includes(gameState.unlockedCursors, cursor.id), cursor.price,
                 gameState'.unlockedCursors = Append(gameState.unlockedCursors, cursor.id))
  /\ UnlockHistoricalMode =>
       Guarded(gameState.historicalUnlocked, HISTORICAL_MODE_PRICE,
               gameState'.historicalUnlocked)
  /\ \A year \in AskedYears :
       UnlockHistoricalYear(year) =>
         Guarded(Includes(gameState.unlockedHistoricalYears, year), YearPrice(year),
                 gameState'.unlockedHistoricalYears =
                   Append(gameState.unlockedHistoricalYears, year))
  /\ \A providerId \in DOMAIN SATELLITE_PROVIDERS :
       UnlockSatelliteProvider(providerId) =>
         Guarded(Includes(gameState.unlockedSatelliteProviders, providerId),
                 SATELLITE_PROVIDERS[providerId].price,
                 gameState'.unlockedSatelliteProviders =
                   Append(gameState.unlockedSatelliteProviders, providerId))

====
